---- MODULE Spec2Model ----
(***************************************************************************)
(* ArcDB: transaction manager, table lock manager, write-ahead log,        *)
(* heap file over the buffer pool, executor statements and recovery.       *)
(*                                                                         *)
(* Page ids and slot numbers are 0-based in the source; here a page id p   *)
(* of the source is the position p+1 in the data file sequence and a slot  *)
(* number s is the position s+1 in the page's slot directory.  LSNs and    *)
(* transaction ids keep the source's values (LSNs from 0, ids from 1).     *)
(* Option::None is written 0 for ids, images and holders.                  *)
(***************************************************************************)
EXTENDS Integers, Sequences, FiniteSets, TLC

\* ---------------------------------------------------------------- bounds
MaxLsn == 4        \* records one process run may append per log manager
MaxRecLsn == 6     \* the same, in the crash and recovery specification
MaxTrans == 2      \* transactions one process run may begin per manager
MaxPages == 3      \* pages of one table file
PageCap == 2       \* tuples that fit one page (all tuples have one size)
MaxCrashes == 1    \* process crashes in one behaviour
MaxRunLsn == 3     \* records one process run appends in the several-runs specification
MaxRunTrans == 1   \* transactions one process run begins in the several-runs specification
MaxTMLsn == 4      \* records appended in the transaction-manager API spec
MaxTMTrans == 2    \* transactions begun in the transaction-manager API spec
MaxIoLsn == 5      \* records appended in the failing-log-write specification
MaxCCLsn == 4      \* records appended in the concurrent-callers specification
MaxCCTrans == 2    \* transactions begun in the concurrent-callers specification
PoolSize == 1      \* frames of the buffer pool in the buffer-pool specification
MaxBPPages == 2    \* pages of the table file in the buffer-pool specification
MaxPins == 1       \* pins one frame may carry in the buffer-pool specification
MaxReplacer == 3   \* entries of the replacer in the buffer-pool specification
PageBytes == 38    \* bytes of a page in the page specification (PAGE_SIZE scaled down)
MaxTuple == 2      \* bytes of a tuple payload in the page specification
MaxKey == 5        \* index keys 1..MaxKey in the B+ tree specification
MaxRows == 3       \* rows ever inserted in the table specification
MaxEntries == 5    \* entries the B+ tree holds in the B+ tree specification
MaxCalls == 2      \* calls each thread makes in the internal-locks specification
PAGE_HEADER_SIZE == 24   \* page.rs: bytes of the page header
SlotEntry == 4           \* page.rs: bytes of one slot entry (offset u16, size u16)
ORDER == 4               \* btree.rs: keys a node holds before it splits
Null == 0                \* tuple.rs: Value::Null, which compares less than every value

Handles == {1, 2}            \* engine handles (one per server connection)
Tables == {"u", "v"}         \* table names known to the catalog
Vals == {1, 2}               \* tuple contents (single-column rows)
Modes == {"Shared", "Exclusive"}
Threads == {1, 2}            \* threads that call one manager concurrently

VARIABLES
    log_file,          \* LogManager.log_file is Some (set_log_file was called)
    walFile,           \* contents of arcdb.wal, in file order
    disk,              \* [Tables -> Seq(Page)]: the table data files
    buffer,            \* [Handles -> Seq(LogRecord)]: LogManager.buffer
    next_lsn,          \* [Handles -> Nat]: LogManager.next_lsn
    transactions,      \* [Handles -> Seq(state)]: TransactionManager.transactions, by id
    next_trans_id,     \* [Handles -> Nat]: TransactionManager.next_trans_id
    locks,             \* [Handles -> [Tables -> entry]]: LockManager.locks
    current_trans_id,  \* [Handles -> Nat]: ExecutionEngine.current_trans_id
    tables,            \* [Handles -> [Tables -> heap]]: ExecutionEngine.tables
    phase,             \* "run" | "down" | "rec1" | "rec2": process life cycle
    crashes,           \* crashes so far
    scan1,             \* [Tables -> Seq]: live tuples right after the last restart's recovery
    ret,               \* the last call and what it returned
    threads,           \* concurrent callers of manager 1: positions, locals, mutex holders
    bpm,               \* one BufferPoolManager in full (frames, pins, replacer) and its file
    pg,                \* one Page byte by byte: header fields, slot directory, data
    tree,              \* one BPlusTree and the entries put into it
    tab,               \* one Table: heap slots and the index on its column
    catalog,           \* one Catalog and the workers calling it
    pagefile,          \* the table file's copy of the page in pg, and the frame's flags
    sync               \* the managers' internal locks and the callers inside the managers

vars == <<log_file, walFile, disk, buffer, next_lsn, transactions, next_trans_id,
          locks, current_trans_id, tables, phase, crashes, scan1, ret, threads, bpm,
          pg, tree, tab, catalog, pagefile, sync>>

\* ------------------------------------------------------- lock manager
\* One lock-table entry: (Option<u64>, Vec<u64>)
NoLock == [ex |-> 0, sh |-> <<>>]

Range(s) == {s[i] : i \in 1..Len(s)}

\* Vec::retain(|&id| id != trans_id)
RECURSIVE Retain(_, _)
Retain(s, id) ==
    IF s = <<>> THEN <<>>
    ELSE IF Head(s) = id THEN Retain(Tail(s), id)
         ELSE <<Head(s)>> \o Retain(Tail(s), id)

\* a Shared arm that lets the requester in beside another exclusive holder
AcquireSharedBesideExclusive(entry, trans_id) ==
    IF entry.ex = trans_id /\ entry.ex # 0
    THEN [ok |-> TRUE, entry |-> entry]
    ELSE IF trans_id \notin Range(entry.sh)
         THEN [ok |-> TRUE, entry |-> [entry EXCEPT !.sh = Append(@, trans_id)]]
         ELSE [ok |-> TRUE, entry |-> entry]

\* LockManager::acquire, Shared arm
AcquireShared(entry, trans_id) ==
    IF entry.ex # 0
    THEN IF entry.ex = trans_id
         THEN [ok |-> TRUE, entry |-> entry]
         ELSE [ok |-> FALSE, entry |-> entry]
    ELSE IF trans_id \notin Range(entry.sh)
         THEN [ok |-> TRUE, entry |-> [entry EXCEPT !.sh = Append(@, trans_id)]]
         ELSE [ok |-> TRUE, entry |-> entry]

\* a lock manager that upgrades whenever the requester is among the shared holders
AcquireExclusiveAnySharer(entry, trans_id) ==
    IF entry.ex # 0
    THEN [ok |-> entry.ex = trans_id, entry |-> entry]
    ELSE IF entry.sh # <<>>
         THEN IF trans_id \in Range(entry.sh)
              THEN [ok |-> TRUE, entry |-> [ex |-> trans_id, sh |-> <<>>]]
              ELSE [ok |-> FALSE, entry |-> entry]
         ELSE [ok |-> TRUE, entry |-> [entry EXCEPT !.ex = trans_id]]

\* LockManager::acquire, Exclusive arm
AcquireExclusive(entry, trans_id) ==
    IF entry.ex # 0
    THEN IF entry.ex = trans_id
         THEN [ok |-> TRUE, entry |-> entry]
         ELSE [ok |-> FALSE, entry |-> entry]
    ELSE IF entry.sh # <<>>
         THEN IF Len(entry.sh) = 1 /\ entry.sh[1] = trans_id
              THEN [ok |-> TRUE, entry |-> [ex |-> trans_id, sh |-> <<>>]]
              ELSE [ok |-> FALSE, entry |-> entry]
         ELSE [ok |-> TRUE, entry |-> [entry EXCEPT !.ex = trans_id]]

\* LockManager::acquire
acquire(entry, trans_id, mode) ==
    IF mode = "Shared" THEN AcquireShared(entry, trans_id)
    ELSE AcquireExclusive(entry, trans_id)

\* a release that drops every exclusive holder, whoever it is
ReleaseAllAnyHolder(lk, trans_id) ==
    [t \in Tables |-> [ex |-> 0, sh |-> Retain(lk[t].sh, trans_id)]]

\* LockManager::release_all
release_all(lk, trans_id) ==
    [t \in Tables |->
        [ex |-> IF lk[t].ex = trans_id THEN 0 ELSE lk[t].ex,
         sh |-> Retain(lk[t].sh, trans_id)]]

\* ------------------------------------------------------- log manager
\* LogRecord::new
LogRecord(lsn, trans_id, record_type, table_name, slot_id, before_image, after_image) ==
    [lsn |-> lsn, trans_id |-> trans_id, record_type |-> record_type,
     table_name |-> table_name, slot_id |-> slot_id,
     before_image |-> before_image, after_image |-> after_image]

NoSlot == <<0, 0>>
NoTable == "-"

\* The state of one TransactionManager with its LogManager and LockManager,
\* and the log file the LogManager appends to.
Manager(m) ==
    [log_file |-> log_file, walFile |-> walFile, buffer |-> buffer[m],
     next_lsn |-> next_lsn[m], transactions |-> transactions[m],
     next_trans_id |-> next_trans_id[m], locks |-> locks[m]]

\* LogManager::append
append(M, trans_id, record_type, table_name, slot_id, before_image, after_image) ==
    [M EXCEPT !.next_lsn = @ + 1,
              !.buffer = Append(@, LogRecord(M.next_lsn, trans_id, record_type,
                                   table_name, slot_id, before_image, after_image))]

\* LogManager::flush.  written = -1: no I/O error; written = n >= 0: the
\* write fails after n records reached the file (the buffer is kept).
flush(M, written) ==
    IF M.buffer = <<>> THEN [M |-> M, ok |-> TRUE]
    ELSE IF M.log_file
         THEN IF written = -1
              THEN [M |-> [M EXCEPT !.walFile = @ \o M.buffer, !.buffer = <<>>],
                    ok |-> TRUE]
              ELSE [M |-> [M EXCEPT !.walFile = @ \o SubSeq(M.buffer, 1, written)],
                    ok |-> FALSE]
         ELSE [M |-> M, ok |-> TRUE]

\* --------------------------------------------------- transaction manager
\* TransactionManager::begin
begin(M) ==
    LET trans_id == M.next_trans_id
        M1 == [M EXCEPT !.next_trans_id = @ + 1,
                        !.transactions = Append(@, "Active")]
    IN [M |-> append(M1, trans_id, "Begin", NoTable, NoSlot, 0, 0), id |-> trans_id]

\* a commit that does not look at the transaction's state
commitAnyState(M, trans_id, written) ==
    IF trans_id \notin 1..Len(M.transactions)
    THEN [M |-> M, ok |-> FALSE, err |-> "TransactionNotFound"]
    ELSE LET M1 == append(M, trans_id, "Commit", NoTable, NoSlot, 0, 0)
             f == flush(M1, written)
         IN IF ~f.ok
            THEN [M |-> f.M, ok |-> FALSE, err |-> "IoError"]
            ELSE [M |-> [f.M EXCEPT !.transactions[trans_id] = "Committed",
                                    !.locks = release_all(@, trans_id)],
                  ok |-> TRUE, err |-> ""]

\* TransactionManager::commit
commit(M, trans_id, written) ==
    IF trans_id \notin 1..Len(M.transactions)
    THEN [M |-> M, ok |-> FALSE, err |-> "TransactionNotFound"]
    ELSE IF M.transactions[trans_id] # "Active"
    THEN [M |-> M, ok |-> FALSE, err |-> "Transaction not active"]
    ELSE LET M1 == append(M, trans_id, "Commit", NoTable, NoSlot, 0, 0)
             f == flush(M1, written)
         IN IF ~f.ok
            THEN [M |-> f.M, ok |-> FALSE, err |-> "IoError"]
            ELSE [M |-> [f.M EXCEPT !.transactions[trans_id] = "Committed",
                                    !.locks = release_all(@, trans_id)],
                  ok |-> TRUE, err |-> ""]

\* TransactionManager::rollback
rollback(M, trans_id) ==
    IF trans_id \notin 1..Len(M.transactions)
    THEN [M |-> M, ok |-> FALSE, err |-> "TransactionNotFound"]
    ELSE IF M.transactions[trans_id] # "Active"
    THEN [M |-> M, ok |-> FALSE, err |-> "Transaction not active"]
    ELSE LET M1 == append(M, trans_id, "Rollback", NoTable, NoSlot, 0, 0)
         IN [M |-> [M1 EXCEPT !.transactions[trans_id] = "Aborted",
                              !.locks = release_all(@, trans_id)],
             ok |-> TRUE, err |-> ""]

\* TransactionManager::acquire_lock
acquire_lock(M, table, trans_id, mode) ==
    LET a == acquire(M.locks[table], trans_id, mode)
    IN [M |-> [M EXCEPT !.locks[table] = a.entry], ok |-> a.ok]

\* store a manager's state back into the variables
SetManager(m, M) ==
    /\ walFile' = M.walFile
    /\ buffer' = [buffer EXCEPT ![m] = M.buffer]
    /\ next_lsn' = [next_lsn EXCEPT ![m] = M.next_lsn]
    /\ transactions' = [transactions EXCEPT ![m] = M.transactions]
    /\ next_trans_id' = [next_trans_id EXCEPT ![m] = M.next_trans_id]
    /\ locks' = [locks EXCEPT ![m] = M.locks]

\* ------------------------------------------------ pages, buffer pool, heap
Dead == 0                                   \* a slot of size 0 (tombstone)
ZeroPage == [lsn |-> 0, slots |-> <<>>]     \* a page without tuples, page-LSN 0
NotLoaded == [loaded |-> FALSE, last_page_id |-> 0, frames |-> <<>>, dirty |-> {}]

\* The storage one engine handle works on: its open tables (heap file and
\* the frames of its own buffer pool) and the data files on disk.
Store(h) == [tb |-> tables[h], dk |-> disk]

\* DiskManager::read_page succeeds (the page lies inside the file)
OnDisk(S, t, p) == p \in 1..Len(S.dk[t])

Resident(S, t, p) == p \in DOMAIN S.tb[t].frames

\* BufferPoolManager::fetch_page succeeds: a hit, or a miss read from disk
CanFetch(S, t, p) == Resident(S, t, p) \/ OnDisk(S, t, p)

\* BufferPoolManager::fetch_page: a miss installs the disk content, clean
fetch_page(S, t, p) ==
    IF Resident(S, t, p) THEN S
    ELSE [S EXCEPT !.tb[t].frames = (p :> S.dk[t][p]) @@ @]

\* BufferPoolManager::get_page after a fetch
get_page(S, t, p) == fetch_page(S, t, p).tb[t].frames[p]

\* BufferPoolManager::get_page_mut followed by unpin_page(.., true)
put_page(S, t, p, page) ==
    [S EXCEPT !.tb[t].frames = (p :> page) @@ @,
              !.tb[t].dirty = @ \cup {p}]

\* BufferPoolManager::new_page over DiskManager::allocate_page
new_page(S, t) ==
    LET S1 == [S EXCEPT !.dk[t] = Append(@, ZeroPage)]
    IN put_page(S1, t, Len(S1.dk[t]), ZeroPage)

\* BufferPoolManager::flush_page
flush_page(S, t, p) ==
    IF Resident(S, t, p) /\ p \in S.tb[t].dirty
    THEN [S EXCEPT !.dk[t][p] = S.tb[t].frames[p], !.tb[t].dirty = @ \ {p}]
    ELSE S

\* Page::get_tuple: None (Dead) for a slot out of range or of size 0
get_tuple(page, sn) == IF sn \in 1..Len(page.slots) THEN page.slots[sn] ELSE Dead

\* HeapFile::new
HeapFile_new(S, t) ==
    LET S1 == new_page(S, t)
    IN [S1 EXCEPT !.tb[t].loaded = TRUE, !.tb[t].last_page_id = Len(S1.dk[t])]

\* HeapFile::insert
heap_insert(S, t, v) ==
    LET p == S.tb[t].last_page_id
        page == get_page(S, t, p)
    IN IF Len(page.slots) < PageCap
       THEN [S |-> put_page(S, t, p, [page EXCEPT !.slots = Append(@, v)]),
             slot_id |-> <<p, Len(page.slots) + 1>>]
       ELSE LET S1 == new_page(fetch_page(S, t, p), t)
                np == Len(S1.dk[t])
            IN [S |-> put_page([S1 EXCEPT !.tb[t].last_page_id = np], t, np,
                               [ZeroPage EXCEPT !.slots = <<v>>]),
                slot_id |-> <<np, 1>>]

\* HeapFile::get
heap_get(S, t, slot_id) ==
    IF CanFetch(S, t, slot_id[1])
    THEN [S |-> fetch_page(S, t, slot_id[1]),
          tuple |-> get_tuple(get_page(S, t, slot_id[1]), slot_id[2])]
    ELSE [S |-> S, tuple |-> Dead]

\* HeapFile::delete over Page::delete_tuple
heap_delete(S, t, slot_id) ==
    IF ~CanFetch(S, t, slot_id[1]) THEN [S |-> S, ok |-> FALSE]
    ELSE LET page == get_page(S, t, slot_id[1])
         IN IF slot_id[2] \notin 1..Len(page.slots)
            THEN [S |-> fetch_page(S, t, slot_id[1]), ok |-> FALSE]
            ELSE [S |-> put_page(S, t, slot_id[1],
                                 [page EXCEPT !.slots[slot_id[2]] = Dead]),
                  ok |-> TRUE]

\* HeapFile::update over Page::update_tuple (the new payload has the size of
\* the old one, or the slot has size 0 and the payload moves to free space)
heap_update(S, t, slot_id, v) ==
    IF ~CanFetch(S, t, slot_id[1]) THEN [S |-> S, ok |-> FALSE]
    ELSE LET page == get_page(S, t, slot_id[1])
         IN IF slot_id[2] \notin 1..Len(page.slots)
               \/ (page.slots[slot_id[2]] = Dead /\ Len(page.slots) >= PageCap)
            THEN [S |-> fetch_page(S, t, slot_id[1]), ok |-> FALSE]
            ELSE [S |-> put_page(S, t, slot_id[1],
                                 [page EXCEPT !.slots[slot_id[2]] = v]),
                  ok |-> TRUE]

\* HeapFile::get_page_lsn
get_page_lsn(S, t, p) ==
    IF CanFetch(S, t, p)
    THEN [S |-> fetch_page(S, t, p), lsn |-> get_page(S, t, p).lsn]
    ELSE [S |-> S, lsn |-> 0]

\* HeapFile::set_page_lsn over Page::set_lsn
set_page_lsn(S, t, p, lsn) ==
    IF CanFetch(S, t, p)
    THEN put_page(S, t, p, [get_page(S, t, p) EXCEPT !.lsn = lsn])
    ELSE S

\* HeapFile::scan: the live (slot, tuple) pairs of pages 0..page_count in order
RECURSIVE PageEntries(_, _, _)
PageEntries(page, p, sn) ==
    IF sn > Len(page.slots) THEN <<>>
    ELSE (IF page.slots[sn] # Dead THEN <<[slot_id |-> <<p, sn>>, tuple |-> page.slots[sn]]>>
          ELSE <<>>) \o PageEntries(page, p, sn + 1)

RECURSIVE ScanFrom(_, _, _)
ScanFrom(S, t, p) ==
    IF p > Len(S.dk[t]) THEN [S |-> S, rows |-> <<>>]
    ELSE LET rest == ScanFrom(fetch_page(S, t, p), t, p + 1)
         IN [S |-> rest.S, rows |-> PageEntries(get_page(S, t, p), p, 1) \o rest.rows]

heap_scan(S, t) == ScanFrom(S, t, 1)

\* ------------------------------------------------------------------ table
\* Table::insert (the schema has one nullable column and no index)
table_insert(S, t, v) ==
    LET r == heap_insert(S, t, v) IN [S |-> r.S, ok |-> TRUE, slot_id |-> r.slot_id]

\* Table::delete
table_delete(S, t, slot_id) ==
    LET g == heap_get(S, t, slot_id)
    IN IF g.tuple = Dead THEN [S |-> g.S, ok |-> FALSE]
       ELSE heap_delete(g.S, t, slot_id)

\* Table::update
table_update(S, t, slot_id, v) ==
    LET g == heap_get(S, t, slot_id)
    IN IF g.tuple = Dead THEN [S |-> g.S, ok |-> FALSE]
       ELSE heap_update(g.S, t, slot_id, v)

\* ExecutionEngine::ensure_table_loaded: the path it tests, table_{id}.data
\* in the working directory, is not the file the disk manager writes
\* (data/table_{id}.data), so an unloaded table is built by Table::new
ensure_table_loaded(S, t) ==
    IF S.tb[t].loaded THEN S ELSE HeapFile_new(S, t)

SetStore(h, S) ==
    /\ tables' = [tables EXCEPT ![h] = S.tb]
    /\ disk' = S.dk

\* --------------------------------------------------------------- recovery
\* ExecutionEngine::recover, pass 1: analysis
RECURSIVE Analysis(_, _, _)
Analysis(records, committed, active) ==
    IF records = <<>> THEN [committed |-> committed, active |-> active]
    ELSE LET r == Head(records)
         IN IF r.record_type = "Begin"
            THEN Analysis(Tail(records), committed, active \cup {r.trans_id})
            ELSE IF r.record_type = "Commit"
            THEN Analysis(Tail(records), committed \cup {r.trans_id}, active \ {r.trans_id})
            ELSE IF r.record_type \in {"Rollback", "Abort"}
            THEN Analysis(Tail(records), committed, active \ {r.trans_id})
            ELSE Analysis(Tail(records), committed, active)

\* a record carries a table name and a slot id
IsDataRecord(r) == r.table_name # NoTable /\ r.slot_id # NoSlot

\* the match on record_type inside the redo pass
RedoApply(S, r) ==
    IF r.record_type = "Insert"
    THEN (IF r.after_image # 0 THEN table_insert(S, r.table_name, r.after_image).S ELSE S)
    ELSE IF r.record_type = "Update"
    THEN (IF r.after_image # 0
          THEN table_update(S, r.table_name, r.slot_id, r.after_image).S ELSE S)
    ELSE IF r.record_type = "Delete"
    THEN table_delete(S, r.table_name, r.slot_id).S
    ELSE S

\* ExecutionEngine::recover, pass 2: redo the records of committed transactions
RECURSIVE Redo(_, _, _)
Redo(S, records, committed) ==
    IF records = <<>> THEN S
    ELSE LET r == Head(records)
         IN IF r.trans_id \in committed /\ IsDataRecord(r)
            THEN LET S1 == ensure_table_loaded(S, r.table_name)
                     l == get_page_lsn(S1, r.table_name, r.slot_id[1])
                 IN IF l.lsn < r.lsn
                    THEN Redo(set_page_lsn(RedoApply(l.S, r), r.table_name,
                                           r.slot_id[1], r.lsn),
                              Tail(records), committed)
                    ELSE Redo(l.S, Tail(records), committed)
            ELSE Redo(S, Tail(records), committed)

\* the match on record_type inside the undo pass
UndoApply(S, r) ==
    IF r.record_type = "Insert"
    THEN table_delete(S, r.table_name, r.slot_id).S
    ELSE IF r.record_type = "Update"
    THEN (IF r.before_image # 0
          THEN table_update(S, r.table_name, r.slot_id, r.before_image).S ELSE S)
    ELSE IF r.record_type = "Delete"
    THEN (IF r.before_image # 0 THEN table_insert(S, r.table_name, r.before_image).S ELSE S)
    ELSE S

\* ExecutionEngine::recover, pass 3: undo the records of active transactions,
\* last record first
RECURSIVE Undo(_, _, _)
Undo(S, records, active) ==
    IF records = <<>> THEN S
    ELSE LET r == records[Len(records)]
             rest == SubSeq(records, 1, Len(records) - 1)
         IN IF r.trans_id \in active /\ IsDataRecord(r)
            THEN LET S1 == ensure_table_loaded(S, r.table_name)
                     l == get_page_lsn(S1, r.table_name, r.slot_id[1])
                 IN IF l.lsn >= r.lsn
                    THEN Undo(set_page_lsn(UndoApply(l.S, r), r.table_name,
                                           r.slot_id[1], r.lsn),
                              rest, active)
                    ELSE Undo(l.S, rest, active)
            ELSE Undo(S, rest, active)

\* ExecutionEngine::recover over the records read from arcdb.wal
recover(S, records) ==
    LET a == Analysis(records, {}, {})
    IN Undo(Redo(S, records, a.committed), records, a.active)

\* the tuples a scan of table t returns on storage S
RECURSIVE Tuples(_)
Tuples(rows) == IF rows = <<>> THEN <<>> ELSE <<Head(rows).tuple>> \o Tuples(Tail(rows))

LiveTuples(S, t) == Tuples(heap_scan(S, t).rows)

\* --------------------------------------------------------- initial states
\* the last call (op, handle or manager, table, transaction or page, lock
\* mode), whether it returned Ok, and the error it returned
RetErr(op, h, table, id, mode, ok, err) ==
    [op |-> op, h |-> h, table |-> table, id |-> id, mode |-> mode, ok |-> ok,
     err |-> err]

Ret(op, h, table, id, mode, ok) == RetErr(op, h, table, id, mode, ok, "")

\* no thread is inside a call, no mutex is held, begin has returned nothing
InitThreads ==
    [pc |-> [th \in Threads |-> "idle"],
     loc |-> [th \in Threads |-> [lsn |-> 0, trans_id |-> 0]],
     lsn_guard |-> 0, trans_id_guard |-> 0, returned |-> <<>>]

\* a frame as BufferPoolManager::new fills it: Page::new(0), not pinned, clean
NewFrame == [page |-> ZeroPage, pin_count |-> 0, dirty |-> FALSE]

\* BufferPoolManager::new(PoolSize, ..) over a table file of one page;
\* free_list.pop() takes the last element
InitPool ==
    [page_table |-> <<>>,
     frames |-> [i \in 1..PoolSize |-> NewFrame],
     frame_ids |-> [i \in 1..PoolSize |-> 0],
     free_list |-> [i \in 1..PoolSize |-> i],
     replacer |-> <<>>,
     dk |-> <<ZeroPage>>,
     last_page_id |-> 1,
     last |-> <<ZeroPage>>,
     returned |-> {}]

\* A fresh process: Catalog::load_from_disk found the tables an earlier
\* process created (each file holds the page Table::new allocated), no
\* engine has opened a table yet, every manager is as TransactionManager::new
\* and LogManager::new build it.
\* Page::new: no tuples, free space up to the end of the page, data zeroed.
\* written keeps, per slot, the payload last written to it (<<>> once deleted).
Page_new ==
    [tuple_count |-> 0,
     free_space_offset |-> PageBytes,
     slots |-> <<>>,
     data |-> [i \in 0..(PageBytes - 1) |-> 0],
     written |-> <<>>]

\* Page::from_bytes of a page DiskManager::allocate_page wrote: PAGE_SIZE
\* zero bytes, so every header field parses to 0
ZeroBytes ==
    [tuple_count |-> 0,
     free_space_offset |-> 0,
     slots |-> <<>>,
     data |-> [i \in 0..(PageBytes - 1) |-> 0],
     written |-> <<>>]

\* the table file does not hold the page yet; no frame holds it
PageFile_new == [allocated |-> FALSE, bytes |-> ZeroBytes, resident |-> FALSE,
                 dirty |-> FALSE]

\* the managers' internal locks: the id counter, the transaction map, the
\* mutex of each transaction, the LSN counter, the log buffer, the log file,
\* the lock table
Mutexes ==
    {"next_trans_id", "transactions", "trans1", "trans2", "next_lsn", "buffer",
     "log_file", "locks"}

\* no caller is inside a manager, every lock is free
Sync_new ==
    [pc |-> [th \in Threads |-> <<>>],
     calls |-> [th \in Threads |-> 0],
     writer |-> [m \in Mutexes |-> 0],
     readers |-> [m \in Mutexes |-> {}]]

\* BPlusTree::new: no root; live keeps the slot each key was last inserted
\* with (0 when the key is not in the tree)
\* (root is Option<Box<BPlusNode>>: the empty sequence or one node)
BPlusTree_new == [root |-> <<>>, size |-> 0, live |-> [k \in 1..MaxKey |-> 0]]

\* Table::new followed by Table::create_index on the table's one column,
\* declared NOT NULL: an empty heap (a slot holds <<value>>, or <<>> once
\* deleted) and an empty index
Table_new == [heap |-> <<>>, index |-> [root |-> <<>>, size |-> 0]]

\* Catalog::new: no table, no index; pc is where each worker stands inside a
\* catalog call
Idle == [at |-> "idle", name |-> "-", table_name |-> "-"]
Catalog_new == [tables |-> {}, indexes |-> {}, pc |-> [w \in Threads |-> Idle]]

InitCommon ==
    /\ walFile = <<>>
    /\ disk = [t \in Tables |-> <<ZeroPage>>]
    /\ buffer = [h \in Handles |-> <<>>]
    /\ next_lsn = [h \in Handles |-> 0]
    /\ transactions = [h \in Handles |-> <<>>]
    /\ next_trans_id = [h \in Handles |-> 1]
    /\ locks = [h \in Handles |-> [t \in Tables |-> NoLock]]
    /\ current_trans_id = [h \in Handles |-> 0]
    /\ tables = [h \in Handles |-> [t \in Tables |-> NotLoaded]]
    /\ phase = "run"
    /\ crashes = 0
    /\ scan1 = [t \in Tables |-> <<>>]
    /\ ret = Ret("none", 0, NoTable, 0, "-", TRUE)
    /\ threads = InitThreads
    /\ bpm = InitPool
    /\ pg = Page_new
    /\ tree = BPlusTree_new
    /\ tab = Table_new
    /\ catalog = Catalog_new
    /\ pagefile = PageFile_new
    /\ sync = Sync_new

\* ExecutionEngine::new: LogManager::new leaves log_file None
Init == InitCommon /\ log_file = FALSE

\* the log manager was given arcdb.wal by LogManager::set_log_file
InitFile == InitCommon /\ log_file = TRUE

Running == phase # "down"

\* --------------------------------------------------- executor statements
\* a begin that opens a transaction whether or not one is open
BeginNested(h) ==
    /\ Running
    /\ phase' = "run"
    /\ LET b == begin(Manager(h))
       IN /\ SetManager(h, b.M)
          /\ current_trans_id' = [current_trans_id EXCEPT ![h] = b.id]
          /\ ret' = Ret("begin", h, NoTable, b.id, "-", TRUE)
    /\ UNCHANGED <<log_file, disk, tables, crashes, scan1>>

\* ExecutionEngine::execute_begin
Begin(h) ==
    /\ Running
    /\ phase' = "run"
    /\ IF current_trans_id[h] # 0
       THEN /\ ret' = RetErr("begin", h, NoTable, current_trans_id[h], "-", FALSE,
                                "Transaction already active")
            /\ UNCHANGED <<walFile, buffer, next_lsn, transactions, next_trans_id,
                           locks, current_trans_id>>
       ELSE /\ LET b == begin(Manager(h))
               IN /\ SetManager(h, b.M)
                  /\ current_trans_id' = [current_trans_id EXCEPT ![h] = b.id]
                  /\ ret' = Ret("begin", h, NoTable, b.id, "-", TRUE)
    /\ UNCHANGED <<log_file, disk, tables, crashes, scan1>>

\* ExecutionEngine::execute_commit; written is the outcome of the log write
\* (see flush)
Commit(h, written) ==
    /\ Running
    /\ phase' = "run"
    /\ IF current_trans_id[h] = 0
       THEN /\ written = -1
            /\ ret' = RetErr("commit", h, NoTable, 0, "-", FALSE, "No active transaction")
            /\ UNCHANGED <<walFile, buffer, next_lsn, transactions, next_trans_id,
                           locks, current_trans_id>>
       ELSE /\ written \in {-1} \cup (IF log_file THEN 0..(Len(buffer[h]) + 1) ELSE {})
            /\ LET c == commit(Manager(h), current_trans_id[h], written)
               IN /\ SetManager(h, c.M)
                  /\ current_trans_id' = [current_trans_id EXCEPT ![h] = 0]
                  /\ ret' = RetErr("commit", h, NoTable, current_trans_id[h], "-", c.ok, c.err)
    /\ UNCHANGED <<log_file, disk, tables, crashes, scan1>>

\* ExecutionEngine::execute_rollback
Rollback(h) ==
    /\ Running
    /\ phase' = "run"
    /\ IF current_trans_id[h] = 0
       THEN /\ ret' = RetErr("rollback", h, NoTable, 0, "-", FALSE, "No active transaction")
            /\ UNCHANGED <<walFile, buffer, next_lsn, transactions, next_trans_id,
                           locks, current_trans_id>>
       ELSE /\ LET c == rollback(Manager(h), current_trans_id[h])
               IN /\ SetManager(h, c.M)
                  /\ current_trans_id' = [current_trans_id EXCEPT ![h] = 0]
                  /\ ret' = RetErr("rollback", h, NoTable, current_trans_id[h], "-", c.ok, c.err)
    /\ UNCHANGED <<log_file, disk, tables, crashes, scan1>>

\* an executor that skips the lock request of a statement
StatementLockSkipped(h, t, mode) == [M |-> Manager(h), ok |-> TRUE]

\* the lock step of the Insert, Update, Delete and Scan arms of
\* ExecutionEngine::execute: no transaction, no lock request
StatementLock(h, t, mode) ==
    IF current_trans_id[h] # 0
    THEN acquire_lock(Manager(h), t, current_trans_id[h], mode)
    ELSE [M |-> Manager(h), ok |-> TRUE]

\* an execute_insert that logs the Insert record without the after-image
ExecuteInsertNoImage(S, M, t, tid, v) ==
    LET i == table_insert(S, t, v)
    IN IF tid # 0
       THEN [S |-> set_page_lsn(i.S, t, i.slot_id[1], M.next_lsn),
             M |-> append(M, tid, "Insert", t, i.slot_id, 0, 0)]
       ELSE [S |-> i.S, M |-> M]

\* the loop of ExecutionEngine::execute_insert over one row
ExecuteInsert(S, M, t, tid, v) ==
    LET i == table_insert(S, t, v)
    IN IF tid # 0
       THEN [S |-> set_page_lsn(i.S, t, i.slot_id[1], M.next_lsn),
             M |-> append(M, tid, "Insert", t, i.slot_id, 0, v)]
       ELSE [S |-> i.S, M |-> M]

\* the loop of ExecutionEngine::execute_update over the matching rows
RECURSIVE ExecuteUpdate(_, _, _, _, _, _)
ExecuteUpdate(S, M, t, tid, rows, nv) ==
    IF rows = <<>> THEN [S |-> S, M |-> M]
    ELSE LET slot_id == Head(rows).slot_id
             before_image == heap_get(S, t, slot_id)
             u == table_update(before_image.S, t, slot_id, nv)
         IN IF tid # 0
            THEN ExecuteUpdate(set_page_lsn(u.S, t, slot_id[1], M.next_lsn),
                               append(M, tid, "Update", t, slot_id, before_image.tuple, nv),
                               t, tid, Tail(rows), nv)
            ELSE ExecuteUpdate(u.S, M, t, tid, Tail(rows), nv)

\* the loop of ExecutionEngine::execute_delete over the matching rows
RECURSIVE ExecuteDelete(_, _, _, _, _)
ExecuteDelete(S, M, t, tid, rows) ==
    IF rows = <<>> THEN [S |-> S, M |-> M]
    ELSE LET slot_id == Head(rows).slot_id
             before_image == heap_get(S, t, slot_id)
             d == table_delete(before_image.S, t, slot_id)
         IN IF tid # 0
            THEN ExecuteDelete(set_page_lsn(d.S, t, slot_id[1], M.next_lsn),
                               append(M, tid, "Delete", t, slot_id, before_image.tuple, 0),
                               t, tid, Tail(rows))
            ELSE ExecuteDelete(d.S, M, t, tid, Tail(rows))

\* the rows of a scan that satisfy the predicate "column = pv"; pv = 0: no predicate
RECURSIVE Matching(_, _)
Matching(rows, pv) ==
    IF rows = <<>> THEN <<>>
    ELSE (IF pv = 0 \/ Head(rows).tuple = pv THEN <<Head(rows)>> ELSE <<>>)
         \o Matching(Tail(rows), pv)

\* what a statement leaves behind
Finish(h, S, M, r) ==
    /\ SetStore(h, S)
    /\ SetManager(h, M)
    /\ ret' = r
    /\ phase' = "run"
    /\ UNCHANGED <<log_file, current_trans_id, crashes, scan1>>

\* ExecutionEngine::execute, Insert arm, one row
Insert(h, t, v) ==
    /\ Running
    /\ LET S1 == ensure_table_loaded(Store(h), t)
           l == StatementLock(h, t, "Exclusive")
       IN IF ~l.ok
          THEN Finish(h, S1, l.M, Ret("insert", h, t, current_trans_id[h], "Exclusive", FALSE))
          ELSE LET e == ExecuteInsert(S1, l.M, t, current_trans_id[h], v)
               IN Finish(h, e.S, e.M, Ret("insert", h, t, current_trans_id[h], "Exclusive", TRUE))

\* ExecutionEngine::execute, Update arm: UPDATE t SET c = nv [WHERE c = pv]
Update(h, t, pv, nv) ==
    /\ Running
    /\ LET S1 == ensure_table_loaded(Store(h), t)
           l == StatementLock(h, t, "Exclusive")
       IN IF ~l.ok
          THEN Finish(h, S1, l.M, Ret("update", h, t, current_trans_id[h], "Exclusive", FALSE))
          ELSE LET sc == heap_scan(S1, t)
                   e == ExecuteUpdate(sc.S, l.M, t, current_trans_id[h],
                                      Matching(sc.rows, pv), nv)
               IN Finish(h, e.S, e.M, Ret("update", h, t, current_trans_id[h], "Exclusive", TRUE))

\* ExecutionEngine::execute, Delete arm: DELETE FROM t [WHERE c = pv]
Delete(h, t, pv) ==
    /\ Running
    /\ LET S1 == ensure_table_loaded(Store(h), t)
           l == StatementLock(h, t, "Exclusive")
       IN IF ~l.ok
          THEN Finish(h, S1, l.M, Ret("delete", h, t, current_trans_id[h], "Exclusive", FALSE))
          ELSE LET sc == heap_scan(S1, t)
                   e == ExecuteDelete(sc.S, l.M, t, current_trans_id[h],
                                      Matching(sc.rows, pv))
               IN Finish(h, e.S, e.M, Ret("delete", h, t, current_trans_id[h], "Exclusive", TRUE))

\* ExecutionEngine::execute, Scan arm
Scan(h, t) ==
    /\ Running
    /\ LET S1 == ensure_table_loaded(Store(h), t)
           l == StatementLock(h, t, "Shared")
       IN IF ~l.ok
          THEN Finish(h, S1, l.M, Ret("scan", h, t, current_trans_id[h], "Shared", FALSE))
          ELSE Finish(h, heap_scan(S1, t).S, l.M,
                      Ret("scan", h, t, current_trans_id[h], "Shared", TRUE))

\* ExecutionEngine::execute, Project arm over a Scan node (SELECT ... FROM t):
\* execute_select hands the input to execute_scan_plan, which looks the
\* table up among the loaded tables and scans it
Select(h, t) ==
    /\ Running
    /\ IF ~tables[h][t].loaded
       THEN Finish(h, Store(h), Manager(h),
                   Ret("select", h, t, current_trans_id[h], "-", FALSE))
       ELSE Finish(h, heap_scan(Store(h), t).S, Manager(h),
                   Ret("select", h, t, current_trans_id[h], "-", TRUE))

\* a dirty page of handle h's pool is written to the table file: the victim
\* of BufferPoolManager::get_victim_frame, or flush_page / flush_all
FlushPage(h, t, p) ==
    /\ Running
    /\ Resident(Store(h), t, p) /\ p \in tables[h][t].dirty
    /\ SetStore(h, flush_page(Store(h), t, p))
    /\ ret' = Ret("flush_page", h, t, p, "-", TRUE)
    /\ UNCHANGED <<log_file, walFile, buffer, next_lsn, transactions, next_trans_id,
                   locks, current_trans_id, phase, crashes, scan1>>

\* ------------------------------------------------------ crash and restart
\* what a process crash leaves: the files; every manager, pool and handle is gone
Lose ==
    /\ buffer' = [h \in Handles |-> <<>>]
    /\ next_lsn' = [h \in Handles |-> 0]
    /\ transactions' = [h \in Handles |-> <<>>]
    /\ next_trans_id' = [h \in Handles |-> 1]
    /\ locks' = [h \in Handles |-> [t \in Tables |-> NoLock]]
    /\ current_trans_id' = [h \in Handles |-> 0]
    /\ tables' = [h \in Handles |-> [t \in Tables |-> NotLoaded]]
    /\ scan1' = [t \in Tables |-> <<>>]
    /\ phase' = "down"
    /\ crashes' = crashes + 1
    /\ ret' = Ret("crash", 0, NoTable, 0, "-", TRUE)

\* the process dies between two statements
Crash ==
    /\ Running
    /\ Lose
    /\ UNCHANGED <<log_file, walFile, disk>>

\* the process dies inside LogManager::flush called by commit: the first n
\* records of the buffer (the Commit record is its last) reached the file
CrashInFlush(h, n) ==
    /\ Running
    /\ log_file
    /\ current_trans_id[h] # 0
    /\ LET M1 == append(Manager(h), current_trans_id[h], "Commit", NoTable, NoSlot, 0, 0)
       IN /\ n \in 0..Len(M1.buffer)
          /\ walFile' = walFile \o SubSeq(M1.buffer, 1, n)
    /\ Lose
    /\ UNCHANGED <<log_file, disk>>

\* ExecutionEngine::new in the next process: recovery runs before any statement
Restart(h) ==
    /\ phase = "down"
    /\ LET S == recover(Store(h), walFile)
       IN /\ SetStore(h, S)
          /\ scan1' = [t \in Tables |-> LiveTuples(S, t)]
    /\ phase' = "rec1"
    /\ ret' = Ret("recover", h, NoTable, 0, "-", TRUE)
    /\ UNCHANGED <<log_file, walFile, buffer, next_lsn, transactions, next_trans_id,
                   locks, current_trans_id, crashes>>

\* ExecutionEngine::recover called once more on the engine just built
RecoverAgain(h) ==
    /\ phase = "rec1"
    /\ LET S == recover(Store(h), walFile)
       IN /\ SetStore(h, S)
    /\ phase' = "rec2"
    /\ ret' = Ret("recover", h, NoTable, 0, "-", TRUE)
    /\ UNCHANGED <<log_file, walFile, buffer, next_lsn, transactions, next_trans_id,
                   locks, current_trans_id, crashes, scan1>>

\* ------------------------------------- the transaction manager's own API
\* TransactionManager::begin called on manager m
TMBegin(m) ==
    /\ LET b == begin(Manager(m))
       IN /\ SetManager(m, b.M)
          /\ ret' = Ret("tm_begin", m, NoTable, b.id, "-", TRUE)
    /\ UNCHANGED <<log_file, disk, current_trans_id, tables, phase, crashes, scan1>>

\* TransactionManager::commit called on manager m
TMCommit(m, id) ==
    /\ LET c == commit(Manager(m), id, -1)
       IN /\ SetManager(m, c.M)
          /\ ret' = RetErr("tm_commit", m, NoTable, id, "-", c.ok, c.err)
    /\ UNCHANGED <<log_file, disk, current_trans_id, tables, phase, crashes, scan1>>

\* TransactionManager::rollback called on manager m
TMRollback(m, id) ==
    /\ LET c == rollback(Manager(m), id)
       IN /\ SetManager(m, c.M)
          /\ ret' = RetErr("tm_rollback", m, NoTable, id, "-", c.ok, c.err)
    /\ UNCHANGED <<log_file, disk, current_trans_id, tables, phase, crashes, scan1>>

\* TransactionManager::acquire_lock called on manager m
TMAcquire(m, t, id, mode) ==
    /\ LET a == acquire_lock(Manager(m), t, id, mode)
       IN /\ SetManager(m, a.M)
          /\ ret' = Ret("acquire", m, t, id, mode, a.ok)
    /\ UNCHANGED <<log_file, disk, current_trans_id, tables, phase, crashes, scan1>>

\* --------------------------------------------------------- specifications
\* the bounds of a behaviour: records and transactions per manager in one
\* process run, pages per table file, crashes
Bounded(lsns, ids) ==
    /\ \A h \in Handles : next_lsn'[h] <= lsns /\ next_trans_id'[h] <= ids + 1
    /\ \A t \in Tables : Len(disk'[t]) <= MaxPages
    /\ crashes' <= MaxCrashes

\* a step of the engine or of a single caller: no thread is inside a call of
\* the concurrent-callers specification, the detailed pool is not used
Sequential == UNCHANGED <<threads, bpm, pg, tree, tab, catalog, pagefile, sync>>

\* a statement of connection h that runs inside a transaction
InTrans(h) == current_trans_id[h] # 0

\* Two connections of one server process, engines as ExecutionEngine::new
\* builds them.  Rows are changed inside transactions: INSERT of one row,
\* UPDATE and DELETE without a WHERE clause.  The pool (1024 frames) holds
\* every page of this workload, so no page is evicted.
Next ==
    \/ \E h \in Handles : Begin(h) /\ Bounded(MaxLsn, MaxTrans) /\ Sequential
    \/ \E h \in Handles : Commit(h, -1) /\ Bounded(MaxLsn, MaxTrans) /\ Sequential
    \/ \E h \in Handles : Rollback(h) /\ Bounded(MaxLsn, MaxTrans) /\ Sequential
    \/ \E h \in Handles : InTrans(h) /\ Insert(h, "u", 1) /\ Bounded(MaxLsn, MaxTrans) /\ Sequential
    \/ \E h \in Handles : InTrans(h) /\ Update(h, "u", 0, 2) /\ Bounded(MaxLsn, MaxTrans) /\ Sequential
    \/ \E h \in Handles : InTrans(h) /\ Delete(h, "u", 0) /\ Bounded(MaxLsn, MaxTrans) /\ Sequential
    \/ \E h \in Handles : Scan(h, "u") /\ Bounded(MaxLsn, MaxTrans) /\ Sequential

Spec == Init /\ [][Next]_vars

\* One transaction manager used through its own API by several transactions.
InitTM == InitCommon /\ log_file \in BOOLEAN

NextTM ==
    \/ TMBegin(1) /\ Bounded(MaxTMLsn, MaxTMTrans) /\ Sequential
    \/ \E id \in 1..MaxTMTrans : TMCommit(1, id) /\ Bounded(MaxTMLsn, MaxTMTrans) /\ Sequential
    \/ \E id \in 1..MaxTMTrans : TMRollback(1, id) /\ Bounded(MaxTMLsn, MaxTMTrans) /\ Sequential
    \/ \E t \in Tables, id \in 1..MaxTMTrans, mode \in Modes : TMAcquire(1, t, id, mode) /\ Sequential

SpecTM == InitTM /\ [][NextTM]_vars

\* One engine whose log manager writes arcdb.wal.  The process may crash and
\* the next process recovers; statements run before the last crash.  The
\* log write of a commit may fail with an I/O error.
FirstRuns == crashes < MaxCrashes

NextRec ==
    \/ FirstRuns /\ Begin(1) /\ Bounded(MaxRecLsn, MaxTrans) /\ Sequential
    \/ \E w \in -1..MaxRecLsn :
          FirstRuns /\ Commit(1, w) /\ Bounded(MaxRecLsn, MaxTrans) /\ Sequential
    \/ FirstRuns /\ Rollback(1) /\ Bounded(MaxRecLsn, MaxTrans) /\ Sequential
    \/ \E v \in Vals :
          FirstRuns /\ InTrans(1) /\ Insert(1, "u", v) /\ Bounded(MaxRecLsn, MaxTrans) /\ Sequential
    \/ \E pv \in Vals \cup {0}, nv \in Vals :
          FirstRuns /\ InTrans(1) /\ Update(1, "u", pv, nv) /\ Bounded(MaxRecLsn, MaxTrans) /\ Sequential
    \/ \E pv \in Vals \cup {0} :
          FirstRuns /\ InTrans(1) /\ Delete(1, "u", pv) /\ Bounded(MaxRecLsn, MaxTrans) /\ Sequential
    \/ \E p \in 1..MaxPages : FlushPage(1, "u", p) /\ Sequential
    \/ Crash /\ Bounded(MaxRecLsn, MaxTrans) /\ Sequential
    \/ \E n \in 0..MaxRecLsn : CrashInFlush(1, n) /\ Bounded(MaxRecLsn, MaxTrans) /\ Sequential
    \/ Restart(1) /\ Bounded(MaxRecLsn, MaxTrans) /\ Sequential
    \/ RecoverAgain(1) /\ Bounded(MaxRecLsn, MaxTrans) /\ Sequential

SpecRec == InitFile /\ [][NextRec]_vars

\* One engine whose log manager writes arcdb.wal, over several process runs:
\* after a crash the next process recovers and then executes statements of
\* its own, with a new TransactionManager and a new LogManager whose
\* counters start again.  The log write of a commit may fail.
NextRuns ==
    \/ Begin(1) /\ Bounded(MaxRunLsn, MaxRunTrans) /\ Sequential
    \/ \E w \in -1..MaxRunLsn :
          Commit(1, w) /\ Bounded(MaxRunLsn, MaxRunTrans) /\ Sequential
    \/ InTrans(1) /\ Insert(1, "u", 1) /\ Bounded(MaxRunLsn, MaxRunTrans) /\ Sequential
    \/ InTrans(1) /\ Update(1, "u", 0, 2) /\ Bounded(MaxRunLsn, MaxRunTrans) /\ Sequential
    \/ \E p \in 1..MaxPages : FlushPage(1, "u", p) /\ Sequential
    \/ Crash /\ Bounded(MaxRunLsn, MaxRunTrans) /\ Sequential
    \/ Restart(1) /\ Bounded(MaxRunLsn, MaxRunTrans) /\ Sequential

SpecRuns == InitFile /\ [][NextRuns]_vars

\* One engine without a log file: statements inside and outside a
\* transaction (INSERT of one row, UPDATE and DELETE without WHERE clause).
NextLog ==
    \/ Begin(1) /\ Bounded(MaxLsn, MaxTrans) /\ Sequential
    \/ Commit(1, -1) /\ Bounded(MaxLsn, MaxTrans) /\ Sequential
    \/ \E v \in Vals : Insert(1, "u", v) /\ Bounded(MaxLsn, MaxTrans) /\ Sequential
    \/ \E nv \in Vals : Update(1, "u", 0, nv) /\ Bounded(MaxLsn, MaxTrans) /\ Sequential
    \/ Delete(1, "u", 0) /\ Bounded(MaxLsn, MaxTrans) /\ Sequential

SpecLog == Init /\ [][NextLog]_vars

\* One engine whose log manager writes arcdb.wal and whose log write may fail
\* with an I/O error inside a commit; the process does not crash.
NextIo ==
    \/ Begin(1) /\ Bounded(MaxIoLsn, MaxTrans) /\ Sequential
    \/ \E w \in -1..MaxIoLsn : Commit(1, w) /\ Bounded(MaxIoLsn, MaxTrans) /\ Sequential
    \/ Rollback(1) /\ Bounded(MaxIoLsn, MaxTrans) /\ Sequential
    \/ \E v \in Vals : InTrans(1) /\ Insert(1, "u", v) /\ Bounded(MaxIoLsn, MaxTrans) /\ Sequential
    \/ \E pv \in Vals \cup {0}, nv \in Vals :
          InTrans(1) /\ Update(1, "u", pv, nv) /\ Bounded(MaxIoLsn, MaxTrans) /\ Sequential
    \/ \E pv \in Vals \cup {0} :
          InTrans(1) /\ Delete(1, "u", pv) /\ Bounded(MaxIoLsn, MaxTrans) /\ Sequential
    \/ Scan(1, "u") /\ Bounded(MaxIoLsn, MaxTrans) /\ Sequential
    \/ Select(1, "u") /\ Bounded(MaxIoLsn, MaxTrans) /\ Sequential

SpecIo == InitFile /\ [][NextIo]_vars

\* ------------------------------------------- concurrent callers of begin
\* and append on manager 1.  A thread that holds a mutex guard keeps it until
\* the function that took it returns; a thread that finds the mutex held
\* waits.  next_lsn and next_trans_id are the two mutexes that calls hold
\* across more than one step.
OtherVars ==
    <<log_file, disk, locks, current_trans_id, tables, phase, crashes, scan1, bpm,
      pg, tree, tab, catalog, pagefile, sync>>

\* an append that reads and bumps next_lsn and gives the mutex back at once
AppendLockReleased(th, trans_id) ==
    /\ threads.pc[th] = "idle"
    /\ trans_id \in Range(threads.returned)
    /\ threads' = [threads EXCEPT !.pc[th] = "append_push",
                                  !.loc[th] = [lsn |-> next_lsn[1], trans_id |-> trans_id]]
    /\ next_lsn' = [next_lsn EXCEPT ![1] = @ + 1]
    /\ ret' = Ret("append_lock", th, NoTable, trans_id, "-", TRUE)
    /\ UNCHANGED <<walFile, buffer, transactions, next_trans_id>>
    /\ UNCHANGED OtherVars

\* LogManager::append, first half, called for a transaction begin has
\* returned: lock next_lsn, read the LSN, add one
AppendLock(th, trans_id) ==
    /\ threads.pc[th] = "idle"
    /\ threads.lsn_guard = 0
    /\ trans_id \in Range(threads.returned)
    /\ threads' = [threads EXCEPT !.pc[th] = "append_push",
                                  !.lsn_guard = th,
                                  !.loc[th] = [lsn |-> next_lsn[1], trans_id |-> trans_id]]
    /\ next_lsn' = [next_lsn EXCEPT ![1] = @ + 1]
    /\ ret' = Ret("append_lock", th, NoTable, trans_id, "-", TRUE)
    /\ UNCHANGED <<walFile, buffer, transactions, next_trans_id>>
    /\ UNCHANGED OtherVars

\* LogManager::append, second half: lock the buffer, push the record, return
\* (both guards are dropped)
AppendPush(th) ==
    /\ threads.pc[th] = "append_push"
    /\ buffer' = [buffer EXCEPT ![1] =
                     Append(@, LogRecord(threads.loc[th].lsn, threads.loc[th].trans_id,
                                         "Insert", "u", NoSlot, 0, 1))]
    /\ threads' = [threads EXCEPT !.pc[th] = "idle",
                                  !.lsn_guard = IF @ = th THEN 0 ELSE @]
    /\ ret' = Ret("append", th, NoTable, threads.loc[th].trans_id, "-", TRUE)
    /\ UNCHANGED <<walFile, next_lsn, transactions, next_trans_id>>
    /\ UNCHANGED OtherVars

\* a begin that reads and bumps next_trans_id and gives the mutex back at once
BeginLockReleased(th) ==
    /\ threads.pc[th] = "idle"
    /\ threads' = [threads EXCEPT !.pc[th] = "begin_insert",
                                  !.loc[th] = [lsn |-> 0, trans_id |-> next_trans_id[1]]]
    /\ next_trans_id' = [next_trans_id EXCEPT ![1] = @ + 1]
    /\ ret' = Ret("begin_lock", th, NoTable, next_trans_id[1], "-", TRUE)
    /\ UNCHANGED <<walFile, buffer, next_lsn, transactions>>
    /\ UNCHANGED OtherVars

\* TransactionManager::begin: lock next_trans_id, read the id, add one
BeginLock(th) ==
    /\ threads.pc[th] = "idle"
    /\ threads.trans_id_guard = 0
    /\ threads' = [threads EXCEPT !.pc[th] = "begin_insert",
                                  !.trans_id_guard = th,
                                  !.loc[th] = [lsn |-> 0, trans_id |-> next_trans_id[1]]]
    /\ next_trans_id' = [next_trans_id EXCEPT ![1] = @ + 1]
    /\ ret' = Ret("begin_lock", th, NoTable, next_trans_id[1], "-", TRUE)
    /\ UNCHANGED <<walFile, buffer, next_lsn, transactions>>
    /\ UNCHANGED OtherVars

\* HashMap::insert(trans_id, Active) on the sequence of states kept by id
InsertActive(trs, id) ==
    IF id \in 1..Len(trs) THEN [trs EXCEPT ![id] = "Active"]
    ELSE trs \o [i \in 1..(id - Len(trs)) |-> "Active"]

\* TransactionManager::begin: insert the Active transaction
BeginInsert(th) ==
    /\ threads.pc[th] = "begin_insert"
    /\ transactions' = [transactions EXCEPT ![1] = InsertActive(@, threads.loc[th].trans_id)]
    /\ threads' = [threads EXCEPT !.pc[th] = "begin_append"]
    /\ ret' = Ret("begin_insert", th, NoTable, threads.loc[th].trans_id, "-", TRUE)
    /\ UNCHANGED <<walFile, buffer, next_lsn, next_trans_id>>
    /\ UNCHANGED OtherVars

\* TransactionManager::begin: the first half of its LogManager::append
BeginAppendLock(th) ==
    /\ threads.pc[th] = "begin_append"
    /\ threads.lsn_guard = 0
    /\ threads' = [threads EXCEPT !.pc[th] = "begin_push",
                                  !.lsn_guard = th,
                                  !.loc[th].lsn = next_lsn[1]]
    /\ next_lsn' = [next_lsn EXCEPT ![1] = @ + 1]
    /\ ret' = Ret("begin_append", th, NoTable, threads.loc[th].trans_id, "-", TRUE)
    /\ UNCHANGED <<walFile, buffer, transactions, next_trans_id>>
    /\ UNCHANGED OtherVars

\* TransactionManager::begin: the Begin record is pushed, append returns,
\* begin returns the id (all guards are dropped)
BeginReturn(th) ==
    /\ threads.pc[th] = "begin_push"
    /\ buffer' = [buffer EXCEPT ![1] =
                     Append(@, LogRecord(threads.loc[th].lsn, threads.loc[th].trans_id,
                                         "Begin", NoTable, NoSlot, 0, 0))]
    /\ threads' = [threads EXCEPT !.pc[th] = "idle",
                                  !.lsn_guard = IF @ = th THEN 0 ELSE @,
                                  !.trans_id_guard = IF @ = th THEN 0 ELSE @,
                                  !.returned = Append(@, threads.loc[th].trans_id)]
    /\ ret' = Ret("tm_begin", th, NoTable, threads.loc[th].trans_id, "-", TRUE)
    /\ UNCHANGED <<walFile, next_lsn, transactions, next_trans_id>>
    /\ UNCHANGED OtherVars

\* LogManager::flush called by a thread: it holds the buffer mutex from its
\* first line to its return
FlushLog(th) ==
    /\ threads.pc[th] = "idle"
    /\ buffer[1] # <<>>
    /\ LET f == flush(Manager(1), -1)
       IN /\ walFile' = f.M.walFile
          /\ buffer' = [buffer EXCEPT ![1] = f.M.buffer]
    /\ ret' = Ret("flush", th, NoTable, 0, "-", TRUE)
    /\ UNCHANGED <<threads, next_lsn, transactions, next_trans_id>>
    /\ UNCHANGED OtherVars

NextCC ==
    \/ \E th \in Threads, id \in 1..MaxCCTrans :
          AppendLock(th, id) /\ Bounded(MaxCCLsn, MaxCCTrans)
    \/ \E th \in Threads : AppendPush(th) /\ Bounded(MaxCCLsn, MaxCCTrans)
    \/ \E th \in Threads : BeginLock(th) /\ Bounded(MaxCCLsn - 1, MaxCCTrans)
    \/ \E th \in Threads : BeginInsert(th) /\ Bounded(MaxCCLsn, MaxCCTrans)
    \/ \E th \in Threads : BeginAppendLock(th) /\ Bounded(MaxCCLsn, MaxCCTrans)
    \/ \E th \in Threads : BeginReturn(th) /\ Bounded(MaxCCLsn, MaxCCTrans)
    \/ \E th \in Threads : FlushLog(th) /\ Bounded(MaxCCLsn, MaxCCTrans)

\* Several threads call begin, append and flush on one transaction manager
\* and its log manager.
SpecCC == InitTM /\ [][NextCC]_vars

\* ------------------------------------------- the managers' internal locks
\* What a call does to the internal locks, as the sequence of its lock
\* operations; a guard is released where it goes out of scope.  Which branch
\* a call takes depends on the data, so a call has a set of sequences.
Lk(m) == <<"lock", m>>      \* Mutex::lock, RwLock::write
Rd(m) == <<"read", m>>      \* RwLock::read
Ul(m) == <<"unlock", m>>    \* the guard is dropped

\* the mutex of transaction trans_id in the map
TransMutex(trans_id) == IF trans_id = 1 THEN "trans1" ELSE "trans2"

\* LogManager::append: lsn_guard, then buffer
LocksOfAppend ==
    {<<Lk("next_lsn"), Lk("buffer"), Ul("buffer"), Ul("next_lsn")>>}

\* a flush that reads the LSN counter while it holds the buffer
LocksOfFlushTakesLsn ==
    {<<Lk("buffer"), Ul("buffer")>>,
     <<Lk("buffer"), Lk("next_lsn"), Ul("next_lsn"), Lk("log_file"),
       Ul("log_file"), Ul("buffer")>>}

\* LogManager::flush: buffer; the file only when the buffer is not empty and
\* the manager has a file (a write error returns with both guards dropped)
LocksOfFlush ==
    {<<Lk("buffer"), Ul("buffer")>>,
     <<Lk("buffer"), Lk("log_file"), Ul("log_file"), Ul("buffer")>>}

\* LockManager::acquire and LockManager::release_all
LocksOfAcquire == {<<Lk("locks"), Ul("locks")>>}

\* TransactionManager::begin: trans_id_guard for the whole call, the map's
\* write lock for the insert, then append
LocksOfBegin ==
    {<<Lk("next_trans_id"), Lk("transactions"), Ul("transactions")>>
        \o a \o <<Ul("next_trans_id")>> : a \in LocksOfAppend}

\* TransactionManager::commit: the map's read lock and the transaction's
\* mutex for the whole call; unknown id, not Active, flush error, success
LocksOfCommit(trans_id) ==
    {<<Rd("transactions"), Ul("transactions")>>,
     <<Rd("transactions"), Lk(TransMutex(trans_id)), Ul(TransMutex(trans_id)),
       Ul("transactions")>>}
    \cup {<<Rd("transactions"), Lk(TransMutex(trans_id))>> \o a \o f
             \o <<Ul(TransMutex(trans_id)), Ul("transactions")>>
          : a \in LocksOfAppend, f \in LocksOfFlush}
    \cup {<<Rd("transactions"), Lk(TransMutex(trans_id))>> \o a \o f \o r
             \o <<Ul(TransMutex(trans_id)), Ul("transactions")>>
          : a \in LocksOfAppend, f \in LocksOfFlush, r \in LocksOfAcquire}

\* TransactionManager::rollback: as commit without the flush
LocksOfRollback(trans_id) ==
    {<<Rd("transactions"), Ul("transactions")>>,
     <<Rd("transactions"), Lk(TransMutex(trans_id)), Ul(TransMutex(trans_id)),
       Ul("transactions")>>}
    \cup {<<Rd("transactions"), Lk(TransMutex(trans_id))>> \o a \o r
             \o <<Ul(TransMutex(trans_id)), Ul("transactions")>>
          : a \in LocksOfAppend, r \in LocksOfAcquire}

SyncOnly ==
    UNCHANGED <<log_file, walFile, disk, buffer, next_lsn, transactions,
                next_trans_id, locks, current_trans_id, tables, phase, crashes,
                scan1, threads, bpm, pg, tree, tab, catalog, pagefile>>

\* the locks thread th holds
HeldBy(th) == {m \in Mutexes : sync.writer[m] = th \/ th \in sync.readers[m]}

\* the lock operation thread th is at can be done now.  A read lock is
\* given while no writer holds the lock.
Ready(th) ==
    /\ sync.pc[th] # <<>>
    /\ LET ins == Head(sync.pc[th])
       IN CASE ins[1] = "lock" -> sync.writer[ins[2]] = 0 /\ sync.readers[ins[2]] = {}
            [] ins[1] = "read" -> sync.writer[ins[2]] = 0
            [] OTHER -> TRUE

\* thread th enters a call whose lock operations are prog
SyncCall(th, op, trans_id, prog) ==
    /\ sync.pc[th] = <<>>
    /\ sync.calls[th] < MaxCalls
    /\ sync' = [sync EXCEPT !.pc[th] = prog, !.calls[th] = @ + 1]
    /\ ret' = RetErr(op, th, NoTable, trans_id, "-", TRUE, "")
    /\ SyncOnly

SyncBegin(th) == \E prog \in LocksOfBegin : SyncCall(th, "sync_begin", 0, prog)
SyncCommit(th, trans_id) ==
    \E prog \in LocksOfCommit(trans_id) : SyncCall(th, "sync_commit", trans_id, prog)
SyncRollback(th, trans_id) ==
    \E prog \in LocksOfRollback(trans_id) : SyncCall(th, "sync_rollback", trans_id, prog)
SyncAcquire(th, trans_id) ==
    \E prog \in LocksOfAcquire : SyncCall(th, "sync_acquire", trans_id, prog)
SyncAppend(th, trans_id) ==
    \E prog \in LocksOfAppend : SyncCall(th, "sync_append", trans_id, prog)
SyncFlush(th) == \E prog \in LocksOfFlush : SyncCall(th, "sync_flush", 0, prog)

\* thread th does its next lock operation; after the last one the call has
\* returned
SyncStep(th) ==
    /\ Ready(th)
    /\ LET ins == Head(sync.pc[th])
           m == ins[2]
       IN sync' = [sync EXCEPT
                     !.pc[th] = Tail(@),
                     !.writer[m] = IF ins[1] = "lock" THEN th
                                   ELSE IF ins[1] = "unlock" /\ @ = th THEN 0 ELSE @,
                     !.readers[m] = IF ins[1] = "read" THEN @ \cup {th}
                                    ELSE IF ins[1] = "unlock" THEN @ \ {th} ELSE @]
    /\ ret' = ret
    /\ SyncOnly

NextSync ==
    \/ \E th \in Threads : SyncBegin(th)
    \/ \E th \in Threads, trans_id \in 1..MaxTrans : SyncCommit(th, trans_id)
    \/ \E th \in Threads, trans_id \in 1..MaxTrans : SyncRollback(th, trans_id)
    \/ \E th \in Threads, trans_id \in 1..MaxTrans : SyncAcquire(th, trans_id)
    \/ \E th \in Threads, trans_id \in 1..MaxTrans : SyncAppend(th, trans_id)
    \/ \E th \in Threads : SyncFlush(th)
    \/ \E th \in Threads : SyncStep(th)

\* Threads calling into one transaction manager and its log manager; a
\* thread that can do its lock operation is scheduled in the end.
SpecSync ==
    Init /\ [][NextSync]_vars /\ \A th \in Threads : WF_vars(SyncStep(th))

\* -------------------------------------------- the buffer pool in full
\* One BufferPoolManager over one table file.  P is the record kept in bpm:
\* page_table (page -> frame), frames (content, pin count, dirty flag),
\* frame_ids (0 is None), free_list, replacer (least recent first), dk (the
\* pages of the file), last_page_id of the heap file opened on the pool, and
\* last (per page, the content last written through the pool).
\* A call returns [P, ok, index, err].
PoolOk(P, index) == [P |-> P, ok |-> TRUE, index |-> index, err |-> ""]
PoolErr(P, err) == [P |-> P, ok |-> FALSE, index |-> 0, err |-> err]

\* Vec::remove(position of the first x), if any
RECURSIVE RemoveFirst(_, _)
RemoveFirst(seq, x) ==
    IF seq = <<>> THEN <<>>
    ELSE IF Head(seq) = x THEN Tail(seq)
         ELSE <<Head(seq)>> \o RemoveFirst(Tail(seq), x)

\* HashMap::remove
MapRemove(f, k) == [x \in DOMAIN f \ {k} |-> f[x]]

\* BufferPoolManager::pin_page
pin_page(P, index) ==
    [P EXCEPT !.frames[index].pin_count = @ + 1,
              !.replacer = RemoveFirst(@, index)]

\* BufferPoolManager::flush_page
bpm_flush_page(P, g) ==
    IF g \in DOMAIN P.page_table
    THEN LET index == P.page_table[g]
         IN IF P.frames[index].dirty
            THEN PoolOk([P EXCEPT !.dk[g] = P.frames[index].page,
                                  !.frames[index].dirty = FALSE], index)
            ELSE PoolOk(P, index)
    ELSE PoolErr(P, "Page not in buffer pool")

\* BufferPoolManager::flush_all: the ids of the frames in frame order, the
\* first error ends the loop
RECURSIVE FlushFrom(_, _)
FlushFrom(P, index) ==
    IF index > PoolSize THEN PoolOk(P, 0)
    ELSE IF P.frame_ids[index] = 0 THEN FlushFrom(P, index + 1)
    ELSE LET f == bpm_flush_page(P, P.frame_ids[index])
         IN IF f.ok THEN FlushFrom(f.P, index + 1) ELSE f

flush_all(P) == FlushFrom(P, 1)

\* a get_victim_frame that hands out the frame without flushing its page
get_victim_frameNoFlush(P) ==
    IF P.free_list # <<>>
    THEN PoolOk([P EXCEPT !.free_list = SubSeq(@, 1, Len(@) - 1)],
                P.free_list[Len(P.free_list)])
    ELSE IF P.replacer = <<>> THEN PoolErr(P, "Buffer pool overflow")
    ELSE PoolOk([P EXCEPT !.replacer = Tail(@)], Head(P.replacer))

\* BufferPoolManager::get_victim_frame
get_victim_frame(P) ==
    IF P.free_list # <<>>
    THEN PoolOk([P EXCEPT !.free_list = SubSeq(@, 1, Len(@) - 1)],
                P.free_list[Len(P.free_list)])
    ELSE IF P.replacer = <<>> THEN PoolErr(P, "Buffer pool overflow")
    ELSE LET index == Head(P.replacer)
             P1 == [P EXCEPT !.replacer = Tail(@)]
         IN IF P1.frame_ids[index] # 0
            THEN LET f == bpm_flush_page(P1, P1.frame_ids[index])
                 IN IF f.ok THEN PoolOk(f.P, index) ELSE f
            ELSE PoolOk(P1, index)

\* the victim's old page leaves the page table
ForgetVictim(P, index) ==
    IF P.frame_ids[index] # 0
    THEN [P EXCEPT !.page_table = MapRemove(@, P.frame_ids[index])]
    ELSE P

\* the frame is given to page g with the given content
Install(P, index, g, page, dirty) ==
    pin_page([P EXCEPT !.frames[index] = [page |-> page, pin_count |-> 0, dirty |-> dirty],
                       !.frame_ids[index] = g,
                       !.page_table = (g :> index) @@ @],
             index)

\* BufferPoolManager::fetch_page; DiskManager::read_page fails past the end
\* of the file
bpm_fetch_page(P, g) ==
    IF g \in DOMAIN P.page_table
    THEN PoolOk(pin_page(P, P.page_table[g]), P.page_table[g])
    ELSE LET v == get_victim_frame(P)
         IN IF ~v.ok THEN v
            ELSE LET P1 == ForgetVictim(v.P, v.index)
                 IN IF g \notin 1..Len(P1.dk)
                    THEN [PoolErr(P1, "IoError") EXCEPT !.index = v.index]
                    ELSE PoolOk(Install(P1, v.index, g, P1.dk[g], FALSE), v.index)

\* BufferPoolManager::new_page: the page is allocated on disk first
bpm_new_page(P) ==
    LET P0 == [P EXCEPT !.dk = Append(@, ZeroPage), !.last = Append(@, ZeroPage)]
        g == Len(P0.dk)
        v == get_victim_frame(P0)
    IN IF ~v.ok THEN v
       ELSE PoolOk(Install(ForgetVictim(v.P, v.index), v.index, g, ZeroPage, TRUE),
                   v.index)

\* BufferPoolManager::unpin_page over Page::unpin
unpin_page(P, g, is_dirty) ==
    IF g \in DOMAIN P.page_table
    THEN LET index == P.page_table[g]
             n == IF P.frames[index].pin_count > 0
                  THEN P.frames[index].pin_count - 1 ELSE 0
         IN PoolOk([P EXCEPT !.frames[index].dirty = @ \/ is_dirty,
                             !.frames[index].pin_count = n,
                             !.replacer = IF n = 0 THEN Append(@, index) ELSE @],
                   index)
    ELSE PoolErr(P, "Page not in buffer pool")

\* an insert_tuple that gives a tombstone's slot to the new tuple
insert_tupleReuse(page, v) ==
    IF \E sn \in 1..Len(page.slots) : page.slots[sn] = Dead
    THEN LET sn == CHOOSE n \in 1..Len(page.slots) : page.slots[n] = Dead
         IN [page |-> [page EXCEPT !.slots[sn] = v], ok |-> TRUE, sn |-> sn]
    ELSE IF Len(page.slots) < PageCap
    THEN [page |-> [page EXCEPT !.slots = Append(@, v)], ok |-> TRUE,
          sn |-> Len(page.slots) + 1]
    ELSE [page |-> page, ok |-> FALSE, sn |-> 0]

\* Page::insert_tuple, Page::delete_tuple, Page::update_tuple: [page, ok];
\* insert_tuple also gives the slot number, the tuple count after the insert
insert_tuple(page, v) ==
    IF Len(page.slots) < PageCap
    THEN [page |-> [page EXCEPT !.slots = Append(@, v)], ok |-> TRUE,
          sn |-> Len(page.slots) + 1]
    ELSE [page |-> page, ok |-> FALSE, sn |-> 0]

delete_tuple(page, sn) ==
    IF sn \in 1..Len(page.slots)
    THEN [page |-> [page EXCEPT !.slots[sn] = Dead], ok |-> TRUE]
    ELSE [page |-> page, ok |-> FALSE]

update_tuple(page, sn, v) ==
    IF sn \notin 1..Len(page.slots)
       \/ (page.slots[sn] = Dead /\ Len(page.slots) >= PageCap)
    THEN [page |-> page, ok |-> FALSE]
    ELSE [page |-> [page EXCEPT !.slots[sn] = v], ok |-> TRUE]

\* a Page mutator has run on the frame: the frame is dirty, and the content
\* is now the last written through the pool for page g
Mutated(P, index, g, page) ==
    [P EXCEPT !.frames[index].page = page,
              !.frames[index].dirty = TRUE,
              !.last[g] = page]

\* every other variable of the module stays as it is
PoolOnly ==
    UNCHANGED <<log_file, walFile, disk, buffer, next_lsn, transactions,
                next_trans_id, locks, current_trans_id, tables, phase, crashes,
                scan1, threads, pg, tree, tab, catalog, pagefile, sync>>

\* the pin counts and the replacer's length stay inside the bounds
PinsBounded ==
    /\ \A i \in 1..PoolSize : bpm'.frames[i].pin_count <= MaxPins
    /\ Len(bpm'.replacer) <= MaxReplacer

PoolRet(op, r, g) == RetErr(op, r.index, "u", g, "-", r.ok, r.err)

\* a caller of the pool fetches page g and keeps it pinned
BPFetch(g) ==
    /\ LET r == bpm_fetch_page(bpm, g)
       IN /\ bpm' = r.P
          /\ ret' = PoolRet("fetch_page", r, g)
    /\ PinsBounded
    /\ PoolOnly

\* a caller of the pool asks for a new page and keeps it pinned
BPNew ==
    /\ Len(bpm.dk) < MaxBPPages
    /\ LET r == bpm_new_page(bpm)
       IN /\ bpm' = r.P
          /\ ret' = PoolRet("new_page", r, Len(r.P.dk))
    /\ PinsBounded
    /\ PoolOnly

BPUnpin(g, is_dirty) ==
    /\ LET r == unpin_page(bpm, g, is_dirty)
       IN /\ bpm' = r.P
          /\ ret' = PoolRet("unpin_page", r, g)
    /\ PinsBounded
    /\ PoolOnly

BPFlush(g) ==
    /\ LET r == bpm_flush_page(bpm, g)
       IN /\ bpm' = r.P
          /\ ret' = PoolRet("flush_page", r, g)
    /\ PoolOnly

BPFlushAll ==
    /\ LET r == flush_all(bpm)
       IN /\ bpm' = r.P
          /\ ret' = PoolRet("flush_all", r, 0)
    /\ PoolOnly

\* insert returned SlotId (g, sn): it joins the slot ids handed out so far
Returned(P, g, sn) == [P EXCEPT !.returned = @ \cup {<<g, sn>>}]

\* HeapFile::insert (the pool's mutex is held for the whole call); on
\* success ret carries the SlotId, page in id and slot number in h
HeapInsert(v) ==
    /\ Len(bpm.dk) < MaxBPPages
    /\ LET g == bpm.last_page_id
           f == bpm_fetch_page(bpm, g)
       IN IF ~f.ok
          THEN bpm' = f.P /\ ret' = PoolRet("heap_insert", f, g)
          ELSE LET ins == insert_tuple(f.P.frames[f.index].page, v)
               IN IF ins.ok
                  THEN LET u == unpin_page(Mutated(f.P, f.index, g, ins.page), g, TRUE)
                       IN IF u.ok
                          THEN /\ bpm' = Returned(u.P, g, ins.sn)
                               /\ ret' = RetErr("heap_insert", ins.sn, "u", g, "-", TRUE, "")
                          ELSE bpm' = u.P /\ ret' = PoolRet("heap_insert", u, g)
                  ELSE LET u == unpin_page(f.P, g, FALSE)
                           n == bpm_new_page(u.P)
                           ng == Len(n.P.dk)
                       IN IF ~n.ok
                          THEN bpm' = n.P /\ ret' = PoolRet("heap_insert", n, ng)
                          ELSE LET first == insert_tuple(n.P.frames[n.index].page, v)
                                   P1 == [n.P EXCEPT !.last_page_id = ng]
                               IN IF ~first.ok
                                  THEN /\ bpm' = P1
                                       /\ ret' = RetErr("heap_insert", n.index, "u", ng, "-",
                                                        FALSE, "StorageError")
                                  ELSE LET w == unpin_page(Mutated(P1, n.index, ng, first.page),
                                                           ng, TRUE)
                                       IN IF w.ok
                                          THEN /\ bpm' = Returned(w.P, ng, first.sn)
                                               /\ ret' = RetErr("heap_insert", first.sn, "u",
                                                                ng, "-", TRUE, "")
                                          ELSE /\ bpm' = w.P
                                               /\ ret' = PoolRet("heap_insert", w, ng)
    /\ PinsBounded
    /\ PoolOnly

\* HeapFile::delete
HeapDelete(g, sn) ==
    /\ LET f == bpm_fetch_page(bpm, g)
       IN IF ~f.ok
          THEN bpm' = f.P /\ ret' = PoolRet("heap_delete", f, g)
          ELSE LET d == delete_tuple(f.P.frames[f.index].page, sn)
                   P1 == IF d.ok THEN Mutated(f.P, f.index, g, d.page) ELSE f.P
                   u == unpin_page(P1, g, d.ok)
               IN /\ bpm' = u.P
                  /\ ret' = RetErr("heap_delete", f.index, "u", g, "-", u.ok /\ d.ok,
                                   IF ~u.ok THEN u.err
                                   ELSE IF d.ok THEN "" ELSE "StorageError")
    /\ PinsBounded
    /\ PoolOnly

\* HeapFile::update
HeapUpdate(g, sn, v) ==
    /\ LET f == bpm_fetch_page(bpm, g)
       IN IF ~f.ok
          THEN bpm' = f.P /\ ret' = PoolRet("heap_update", f, g)
          ELSE LET d == update_tuple(f.P.frames[f.index].page, sn, v)
                   P1 == IF d.ok THEN Mutated(f.P, f.index, g, d.page) ELSE f.P
                   u == unpin_page(P1, g, d.ok)
               IN /\ bpm' = u.P
                  /\ ret' = RetErr("heap_update", f.index, "u", g, "-", u.ok /\ d.ok,
                                   IF ~u.ok THEN u.err
                                   ELSE IF d.ok THEN "" ELSE "StorageError")
    /\ PinsBounded
    /\ PoolOnly

\* HeapFile::get: None leaves the function at the `?` of get_tuple, before
\* unpin_page
HeapGet(g, sn) ==
    /\ LET f == bpm_fetch_page(bpm, g)
       IN IF ~f.ok
          THEN bpm' = f.P /\ ret' = PoolRet("heap_get", f, g)
          ELSE IF get_tuple(f.P.frames[f.index].page, sn) = Dead
               THEN /\ bpm' = f.P
                    /\ ret' = RetErr("heap_get", f.index, "u", g, "-", FALSE, "None")
               ELSE /\ bpm' = unpin_page(f.P, g, FALSE).P
                    /\ ret' = PoolRet("heap_get", f, g)
    /\ PinsBounded
    /\ PoolOnly

\* HeapFile::scan: every page of the file is fetched and unpinned in turn;
\* a page that cannot be fetched is skipped
RECURSIVE ScanPool(_, _)
ScanPool(P, g) ==
    IF g > Len(P.dk) THEN P
    ELSE LET f == bpm_fetch_page(P, g)
         IN ScanPool(IF f.ok THEN unpin_page(f.P, g, FALSE).P ELSE f.P, g + 1)

HeapScan ==
    /\ bpm' = ScanPool(bpm, 1)
    /\ ret' = RetErr("heap_scan", 0, "u", 0, "-", TRUE, "")
    /\ PinsBounded
    /\ PoolOnly

PoolPages == 1..MaxBPPages
PoolSlots == 1..PageCap

NextBP ==
    \/ \E g \in PoolPages : g <= Len(bpm.dk) + 1 /\ BPFetch(g)
    \/ BPNew
    \/ \E g \in PoolPages : \E d \in BOOLEAN : g <= Len(bpm.dk) /\ BPUnpin(g, d)
    \/ \E g \in PoolPages : g <= Len(bpm.dk) /\ BPFlush(g)
    \/ BPFlushAll
    \/ HeapInsert(1)
    \/ \E g \in PoolPages : g <= Len(bpm.dk) /\ HeapUpdate(g, 1, 2)

SpecBP == InitFile /\ [][NextBP]_vars

\* the heap file's own calls, with no other user of the pool
NextHeap ==
    \/ HeapInsert(1)
    \/ \E g \in PoolPages : \E sn \in PoolSlots : g <= Len(bpm.dk) /\ HeapDelete(g, sn)
    \/ \E g \in PoolPages : \E sn \in PoolSlots : g <= Len(bpm.dk) /\ HeapUpdate(g, sn, 2)
    \/ \E g \in PoolPages : \E sn \in PoolSlots : g <= Len(bpm.dk) + 1 /\ HeapGet(g, sn)
    \/ HeapScan
    \/ BPFlushAll

SpecHeap == InitFile /\ [][NextHeap]_vars

\* ------------------------------------------------------ one page in bytes
\* PageHeader::free_space
free_space(P) == P.free_space_offset - PAGE_HEADER_SIZE - P.tuple_count * SlotEntry

\* copy_from_slice of bytes into data[offset .. offset + len)
WriteBytes(data, offset, bytes) ==
    [i \in DOMAIN data |->
        IF i >= offset /\ i < offset + Len(bytes) THEN bytes[i - offset + 1] ELSE data[i]]

\* the four bytes of slot entry slot_num are written (they hold no payload)
WriteSlot(data, slot_num) ==
    WriteBytes(data, PAGE_HEADER_SIZE + slot_num * SlotEntry, [i \in 1..SlotEntry |-> -1])

\* an insert_tuple that asks for room for the payload only, not for the
\* slot entry
Page_insert_tupleNoEntry(P, bytes) ==
    LET size == Len(bytes)
        slot_num == P.tuple_count
        offset == P.free_space_offset - size
    IN IF free_space(P) < size
       THEN [page |-> P, ok |-> FALSE, slot_num |-> 0]
       ELSE [page |-> [tuple_count |-> P.tuple_count + 1,
                       free_space_offset |-> offset,
                       slots |-> Append(P.slots, [offset |-> offset, size |-> size]),
                       data |-> WriteBytes(WriteSlot(P.data, slot_num), offset, bytes),
                       written |-> Append(P.written, bytes)],
             ok |-> TRUE, slot_num |-> slot_num]

\* Page::insert_tuple (slot numbers count from 0, slots[n + 1] is entry n)
Page_insert_tuple(P, bytes) ==
    LET size == Len(bytes)
        slot_num == P.tuple_count
        offset == P.free_space_offset - size
    IN IF free_space(P) < size + SlotEntry
       THEN [page |-> P, ok |-> FALSE, slot_num |-> 0]
       ELSE [page |-> [tuple_count |-> P.tuple_count + 1,
                       free_space_offset |-> offset,
                       slots |-> Append(P.slots, [offset |-> offset, size |-> size]),
                       data |-> WriteBytes(WriteSlot(P.data, slot_num), offset, bytes),
                       written |-> Append(P.written, bytes)],
             ok |-> TRUE, slot_num |-> slot_num]

\* Page::update_tuple: in place when the payload is not longer than the
\* slot's size, else moved to free space when it fits
Page_update_tuple(P, slot_num, bytes) ==
    IF slot_num >= P.tuple_count THEN [page |-> P, ok |-> FALSE]
    ELSE LET old == P.slots[slot_num + 1]
             new_size == Len(bytes)
         IN IF new_size <= old.size
            THEN [page |-> [P EXCEPT !.data = WriteBytes(WriteSlot(@, slot_num),
                                                         old.offset, bytes),
                                     !.slots[slot_num + 1].size = new_size,
                                     !.written[slot_num + 1] = bytes],
                  ok |-> TRUE]
            ELSE IF free_space(P) >= new_size
            THEN LET offset == P.free_space_offset - new_size
                 IN [page |-> [P EXCEPT !.free_space_offset = offset,
                                        !.data = WriteBytes(WriteSlot(@, slot_num),
                                                            offset, bytes),
                                        !.slots[slot_num + 1] =
                                            [offset |-> offset, size |-> new_size],
                                        !.written[slot_num + 1] = bytes],
                     ok |-> TRUE]
            ELSE [page |-> P, ok |-> FALSE]

\* Page::delete_tuple: the slot's size becomes 0
Page_delete_tuple(P, slot_num) ==
    IF slot_num >= P.tuple_count THEN [page |-> P, ok |-> FALSE]
    ELSE [page |-> [P EXCEPT !.data = WriteSlot(@, slot_num),
                             !.slots[slot_num + 1].size = 0,
                             !.written[slot_num + 1] = <<>>],
          ok |-> TRUE]

\* Page::get_tuple: <<>> is None
Page_get_tuple(P, slot_num) ==
    IF slot_num >= P.tuple_count THEN <<>>
    ELSE LET e == P.slots[slot_num + 1]
         IN IF e.size = 0 THEN <<>>
            ELSE [i \in 1..e.size |-> P.data[e.offset + i - 1]]

\* the payloads callers write: 1..MaxTuple bytes of one value
Payloads == {[i \in 1..n |-> v] : n \in 1..MaxTuple, v \in Vals}

PageOnly ==
    UNCHANGED <<log_file, walFile, disk, buffer, next_lsn, transactions,
                next_trans_id, locks, current_trans_id, tables, phase, crashes,
                scan1, threads, bpm, tree, tab, catalog, pagefile, sync>>

PageInsert(bytes) ==
    /\ LET r == Page_insert_tuple(pg, bytes)
       IN /\ pg' = r.page
          /\ ret' = RetErr("insert_tuple", 0, NoTable, r.slot_num, "-", r.ok, "")
    /\ PageOnly

PageUpdate(slot_num, bytes) ==
    /\ LET r == Page_update_tuple(pg, slot_num, bytes)
       IN /\ pg' = r.page
          /\ ret' = RetErr("update_tuple", 0, NoTable, slot_num, "-", r.ok, "")
    /\ PageOnly

PageDelete(slot_num) ==
    /\ LET r == Page_delete_tuple(pg, slot_num)
       IN /\ pg' = r.page
          /\ ret' = RetErr("delete_tuple", 0, NoTable, slot_num, "-", r.ok, "")
    /\ PageOnly

NextPage ==
    \/ \E bytes \in Payloads : PageInsert(bytes)
    \/ \E slot_num \in 0..pg.tuple_count : \E bytes \in Payloads : PageUpdate(slot_num, bytes)
    \/ \E slot_num \in 0..pg.tuple_count : PageDelete(slot_num)

SpecPage == Init /\ [][NextPage]_vars

\* ------------------------------------------- one page, its frame and file
\* The life of one page of a table file: DiskManager::allocate_page appends
\* it zero-filled, a frame of the pool holds it (pg) or not, the frame is
\* written back on a flush.  to_bytes and from_bytes carry the header fields
\* and the data unchanged, so the file's copy is kept as a page value.
FrameOnly ==
    UNCHANGED <<log_file, walFile, disk, buffer, next_lsn, transactions,
                next_trans_id, locks, current_trans_id, tables, phase, crashes,
                scan1, threads, bpm, tree, tab, catalog, sync>>

FrameRet(op, ok, err) == RetErr(op, 0, NoTable, 0, "-", ok, err)

\* BufferPoolManager::new_page: allocate_page, then Page::new in the victim
\* frame, dirty
FrameNewPage ==
    /\ ~pagefile.allocated
    /\ pagefile' = [allocated |-> TRUE, bytes |-> ZeroBytes, resident |-> TRUE,
                    dirty |-> TRUE]
    /\ pg' = Page_new
    /\ ret' = FrameRet("new_page", TRUE, "")
    /\ FrameOnly

\* BufferPoolManager::new_page when every frame is pinned: allocate_page has
\* extended the file before get_victim_frame fails
FrameNewPageOverflow ==
    /\ ~pagefile.allocated
    /\ pagefile' = [allocated |-> TRUE, bytes |-> ZeroBytes, resident |-> FALSE,
                    dirty |-> FALSE]
    /\ pg' = pg
    /\ ret' = FrameRet("new_page", FALSE, "Buffer pool overflow")
    /\ FrameOnly

\* BufferPoolManager::flush_page of the dirty frame
FrameFlush ==
    /\ pagefile.resident /\ pagefile.dirty
    /\ pagefile' = [pagefile EXCEPT !.bytes = pg, !.dirty = FALSE]
    /\ pg' = pg
    /\ ret' = FrameRet("flush_page", TRUE, "")
    /\ FrameOnly

\* the frame is the victim of get_victim_frame: flushed when dirty, then
\* given to another page
FrameEvict ==
    /\ pagefile.resident
    /\ pagefile' = [pagefile EXCEPT !.bytes = IF pagefile.dirty THEN pg ELSE @,
                                    !.dirty = FALSE, !.resident = FALSE]
    /\ pg' = pg
    /\ ret' = FrameRet("evict", TRUE, "")
    /\ FrameOnly

\* the process dies: the pool and its frames are gone, the file stays
FrameCrash ==
    /\ pagefile.resident
    /\ pagefile' = [pagefile EXCEPT !.dirty = FALSE, !.resident = FALSE]
    /\ pg' = pg
    /\ ret' = FrameRet("crash", TRUE, "")
    /\ FrameOnly

\* BufferPoolManager::fetch_page on a miss: read_page and Page::from_bytes
FrameFetch ==
    /\ pagefile.allocated /\ ~pagefile.resident
    /\ pagefile' = [pagefile EXCEPT !.resident = TRUE, !.dirty = FALSE]
    /\ pg' = pagefile.bytes
    /\ ret' = FrameRet("fetch_page", TRUE, "")
    /\ FrameOnly

\* free_space() subtracts in usize: below zero it panics (overflow checks on)
\* or wraps and the slice index of the copy panics; either way the call does
\* not return and the pool's mutex is poisoned, so the frame is lost
Underflows(P) == free_space(P) < 0

\* HeapFile::insert on the page: fetch_page hit, Page::insert_tuple, unpin
FrameInsert(bytes) ==
    /\ pagefile.resident
    /\ IF Underflows(pg)
       THEN /\ pagefile' = [pagefile EXCEPT !.dirty = FALSE, !.resident = FALSE]
            /\ pg' = pg
            /\ ret' = FrameRet("insert_tuple", FALSE, "panic")
       ELSE LET r == Page_insert_tuple(pg, bytes)
            IN /\ pg' = r.page
               /\ pagefile' = [pagefile EXCEPT !.dirty = @ \/ r.ok]
               /\ ret' = FrameRet("insert_tuple", r.ok, "")
    /\ FrameOnly

\* HeapFile::delete on the page: fetch_page hit, Page::delete_tuple, unpin
FrameDelete(slot_num) ==
    /\ pagefile.resident
    /\ LET r == Page_delete_tuple(pg, slot_num)
       IN /\ pg' = r.page
          /\ pagefile' = [pagefile EXCEPT !.dirty = @ \/ r.ok]
          /\ ret' = FrameRet("delete_tuple", r.ok, "")
    /\ FrameOnly

NextFrame ==
    \/ FrameNewPage
    \/ FrameNewPageOverflow
    \/ FrameFlush
    \/ FrameEvict
    \/ FrameCrash
    \/ FrameFetch
    \/ \E bytes \in Payloads : FrameInsert(bytes)
    \/ \E slot_num \in 0..pg.tuple_count : FrameDelete(slot_num)

SpecFrame == Init /\ [][NextFrame]_vars

\* ------------------------------------------------------------ the B+ tree
\* btree.rs.  A node is a record; a leaf has no children and an internal
\* node no values.  Positions are 0-based as in the source: position p of a
\* vector is element p+1 of the sequence.  None is 0 for a slot and the empty
\* sequence for an optional key.
Leaf(keys, values) ==
    [leaf |-> TRUE, keys |-> keys, values |-> values, children |-> <<>>]
Internal(keys, children) ==
    [leaf |-> FALSE, keys |-> keys, values |-> <<>>, children |-> children]

\* Vec::insert(pos, x) and Vec::remove(pos)
VecInsert(s, pos, x) == SubSeq(s, 1, pos) \o <<x>> \o SubSeq(s, pos + 1, Len(s))
VecRemove(s, pos) == SubSeq(s, 1, pos) \o SubSeq(s, pos + 2, Len(s))

\* slice::binary_search on a sorted vector: Ok(p) for a position holding the
\* key (any of them when several do: the library leaves the choice open),
\* else Err(p) with p the number of smaller keys.  The set of the outcomes.
binary_search(keys, key) ==
    LET hits == {p \in 0..(Len(keys) - 1) : keys[p + 1] = key}
    IN IF hits # {}
       THEN {[ok |-> TRUE, pos |-> p] : p \in hits}
       ELSE {[ok |-> FALSE,
              pos |-> Cardinality({i \in 1..Len(keys) : keys[i] < key})]}

\* BPlusTree::insert_recursive: the outcomes [node, split, new_node, mid_key].
\* Both kinds of node descend or insert at binary_search(..).unwrap_or_else(|e| e):
\* on a key equal to a separator the insert goes to the child LEFT of it.
RECURSIVE insert_recursive(_, _, _)
insert_recursive(node, key, value) ==
    IF node.leaf
    THEN { LET keys == VecInsert(node.keys, b.pos, key)
               values == VecInsert(node.values, b.pos, value)
               mid == Len(keys) \div 2
           IN IF Len(keys) > ORDER
              THEN [node |-> Leaf(SubSeq(keys, 1, mid), SubSeq(values, 1, mid)),
                    split |-> TRUE,
                    new_node |-> Leaf(SubSeq(keys, mid + 1, Len(keys)),
                                      SubSeq(values, mid + 1, Len(values))),
                    mid_key |-> keys[mid + 1]]
              ELSE [node |-> Leaf(keys, values), split |-> FALSE,
                    new_node |-> Leaf(<<>>, <<>>), mid_key |-> 0]
           : b \in binary_search(node.keys, key) }
    ELSE UNION {
           { IF ~r.split
             THEN [node |-> Internal(node.keys,
                                     [node.children EXCEPT ![b.pos + 1] = r.node]),
                   split |-> FALSE, new_node |-> Leaf(<<>>, <<>>), mid_key |-> 0]
             ELSE LET keys == VecInsert(node.keys, b.pos, r.mid_key)
                      children ==
                          VecInsert([node.children EXCEPT ![b.pos + 1] = r.node],
                                    b.pos + 1, r.new_node)
                      mid == Len(keys) \div 2
                  IN IF Len(keys) > ORDER
                     THEN [node |-> Internal(SubSeq(keys, 1, mid),
                                             SubSeq(children, 1, mid + 1)),
                           split |-> TRUE,
                           new_node |-> Internal(SubSeq(keys, mid + 2, Len(keys)),
                                                 SubSeq(children, mid + 2, Len(children))),
                           mid_key |-> keys[mid + 1]]
                     ELSE [node |-> Internal(keys, children), split |-> FALSE,
                           new_node |-> Leaf(<<>>, <<>>), mid_key |-> 0]
             : r \in insert_recursive(node.children[b.pos + 1], key, value) }
           : b \in binary_search(node.keys, key) }

\* a BPlusTree::insert whose new root keeps only the left half of a split root
BPlusTree_insertDropsSibling(T, key, value) ==
    IF T.root = <<>>
    THEN {[T EXCEPT !.root = <<Leaf(<<key>>, <<value>>)>>, !.size = @ + 1]}
    ELSE {[T EXCEPT !.root =
                      <<IF r.split
                        THEN Internal(<<r.mid_key>>, <<r.node>>)
                        ELSE r.node>>,
                    !.size = @ + 1]
          : r \in insert_recursive(T.root[1], key, value)}

\* BPlusTree::insert: the trees the call can leave
BPlusTree_insert(T, key, value) ==
    IF T.root = <<>>
    THEN {[T EXCEPT !.root = <<Leaf(<<key>>, <<value>>)>>, !.size = @ + 1]}
    ELSE {[T EXCEPT !.root =
                      <<IF r.split
                        THEN Internal(<<r.mid_key>>, <<r.node, r.new_node>>)
                        ELSE r.node>>,
                    !.size = @ + 1]
          : r \in insert_recursive(T.root[1], key, value)}

\* the child search and delete descend to: RIGHT of a separator equal to the key
RightOfEqual(b) == IF b.ok THEN b.pos + 1 ELSE b.pos

\* BPlusTree::search, the loop from one node: the slots it can return
RECURSIVE search_from(_, _)
search_from(node, key) ==
    IF node.leaf
    THEN {IF b.ok THEN node.values[b.pos + 1] ELSE 0
          : b \in binary_search(node.keys, key)}
    ELSE UNION {search_from(node.children[RightOfEqual(b) + 1], key)
                : b \in binary_search(node.keys, key)}

search(T, key) == IF T.root = <<>> THEN {0} ELSE search_from(T.root[1], key)

\* BPlusTree::delete_recursive: the outcomes [node, result]; nothing is merged
RECURSIVE delete_recursive(_, _)
delete_recursive(node, key) ==
    IF node.leaf
    THEN {IF b.ok
          THEN [node |-> Leaf(VecRemove(node.keys, b.pos),
                              VecRemove(node.values, b.pos)),
                result |-> node.values[b.pos + 1]]
          ELSE [node |-> node, result |-> 0]
          : b \in binary_search(node.keys, key)}
    ELSE UNION {
           {[node |-> Internal(node.keys,
                               [node.children EXCEPT ![RightOfEqual(b) + 1] = r.node]),
             result |-> r.result]
            : r \in delete_recursive(node.children[RightOfEqual(b) + 1], key)}
           : b \in binary_search(node.keys, key)}

\* BPlusTree::delete: the outcomes [tree, result]
BPlusTree_delete(T, key) ==
    IF T.root = <<>>
    THEN {[tree |-> T, result |-> 0]}
    ELSE {[tree |-> [T EXCEPT !.root = <<r.node>>,
                              !.size = IF r.result # 0 THEN @ - 1 ELSE @],
           result |-> r.result]
          : r \in delete_recursive(T.root[1], key)}

\* the loop of range_scan_recursive over a leaf, from element i on
RECURSIVE LeafScan(_, _, _, _)
LeafScan(node, i, start, end) ==
    IF i > Len(node.keys) THEN <<>>
    ELSE LET key == node.keys[i]
             too_small == start # <<>> /\ key < start[1]
             too_large == end # <<>> /\ key > end[1]
         IN (IF ~too_small /\ ~too_large
             THEN << <<key, node.values[i]>> >> ELSE <<>>)
            \o LeafScan(node, i + 1, start, end)

\* BPlusTree::range_scan_recursive: the result vectors it can build.  An
\* internal node visits children start_pos..=end_pos, both positions being
\* binary_search(..).unwrap_or_else(|e| e) of the bound.
RECURSIVE range_scan_recursive(_, _, _), ScanChildren(_, _, _, _, _)
range_scan_recursive(node, start, end) ==
    IF node.leaf THEN {LeafScan(node, 1, start, end)}
    ELSE LET start_pos == IF start = <<>> THEN {0}
                          ELSE {b.pos : b \in binary_search(node.keys, start[1])}
             end_pos == IF end = <<>> THEN {Len(node.keys)}
                        ELSE {b.pos : b \in binary_search(node.keys, end[1])}
         IN UNION {ScanChildren(node, s, e, start, end)
                   : s \in start_pos, e \in end_pos}

ScanChildren(node, i, end_pos, start, end) ==
    IF i > end_pos THEN {<<>>}
    ELSE {a \o b : a \in range_scan_recursive(node.children[i + 1], start, end),
                   b \in ScanChildren(node, i + 1, end_pos, start, end)}

range_scan(T, start, end) ==
    IF T.root = <<>> THEN {<<>>} ELSE range_scan_recursive(T.root[1], start, end)

scan_all(T) == range_scan(T, <<>>, <<>>)

TreeOnly ==
    UNCHANGED <<log_file, walFile, disk, buffer, next_lsn, transactions,
                next_trans_id, locks, current_trans_id, tables, phase, crashes,
                scan1, threads, bpm, pg, tab, catalog, pagefile, sync>>

\* tree.insert(key, value) for a key that is not live; live records the slot
TreeInsert(key, value) ==
    /\ tree.live[key] = 0
    /\ tree.size < MaxEntries
    /\ \E T \in BPlusTree_insert(tree, key, value) :
          tree' = [T EXCEPT !.live[key] = value]
    /\ ret' = RetErr("tree_insert", 0, NoTable, key, "-", TRUE, "")
    /\ TreeOnly

\* tree.delete(key); ok tells whether the call returned Some
TreeDelete(key) ==
    /\ \E r \in BPlusTree_delete(tree, key) :
          /\ tree' = [r.tree EXCEPT !.live[key] = 0]
          /\ ret' = RetErr("tree_delete", 0, NoTable, key, "-", r.result # 0, "")
    /\ TreeOnly

NextTree ==
    \/ \E key \in 1..MaxKey : \E value \in Vals : TreeInsert(key, value)
    \/ \E key \in 1..MaxKey : TreeDelete(key)

SpecTree == Init /\ [][NextTree]_vars

\* --------------------------------------------------------------- the table
\* table.rs over a heap of one-column rows and one index on that column.
\* SlotId s is position s of the heap (slots are handed out once and in
\* order).  Rows are <<v>> with v Null or an integer.
Rows == {Null} \cup Vals

\* HeapFile::get
Table_get(T, slot_id) ==
    IF slot_id \in 1..Len(T.heap) THEN T.heap[slot_id] ELSE <<>>

\* Table::insert: the outcomes [table, ok, err, slot_id]
Table_insert(T, v) ==
    IF v = Null
    THEN {[table |-> T, ok |-> FALSE, err |-> "NullNotAllowed", slot_id |-> 0]}
    ELSE LET slot_id == Len(T.heap) + 1
         IN {[table |-> [heap |-> Append(T.heap, <<v>>), index |-> I],
              ok |-> TRUE, err |-> "", slot_id |-> slot_id]
             : I \in BPlusTree_insert(T.index, v, slot_id)}

\* Table::delete: the index entry is removed by key alone
Table_delete(T, slot_id) ==
    IF Table_get(T, slot_id) = <<>>
    THEN {[table |-> T, ok |-> FALSE, err |-> "Tuple not found"]}
    ELSE LET key == T.heap[slot_id][1]
         IN {[table |-> [heap |-> [T.heap EXCEPT ![slot_id] = <<>>],
                         index |-> d.tree],
              ok |-> TRUE, err |-> ""]
             : d \in BPlusTree_delete(T.index, key)}

\* Table::update: only the column count is validated before the heap is
\* written; the index changes when the key does
Table_update(T, slot_id, v) ==
    IF Table_get(T, slot_id) = <<>>
    THEN {[table |-> T, ok |-> FALSE, err |-> "Tuple not found"]}
    ELSE LET old_key == T.heap[slot_id][1]
             heap == [T.heap EXCEPT ![slot_id] = <<v>>]
         IN IF old_key = v
            THEN {[table |-> [heap |-> heap, index |-> T.index],
                   ok |-> TRUE, err |-> ""]}
            ELSE UNION {
                   {[table |-> [heap |-> heap, index |-> I], ok |-> TRUE, err |-> ""]
                    : I \in BPlusTree_insert(d.tree, v, slot_id)}
                   : d \in BPlusTree_delete(T.index, old_key)}

TableOnly ==
    UNCHANGED <<log_file, walFile, disk, buffer, next_lsn, transactions,
                next_trans_id, locks, current_trans_id, tables, phase, crashes,
                scan1, threads, bpm, pg, tree, catalog, pagefile, sync>>

\* in ret, h is the slot the call names or returns and id the value written
TableInsert(v) ==
    /\ Len(tab.heap) < MaxRows
    /\ \E r \in Table_insert(tab, v) :
          /\ tab' = r.table
          /\ ret' = RetErr("table_insert", r.slot_id, "u", v, "-", r.ok, r.err)
    /\ TableOnly

TableDelete(slot_id) ==
    /\ \E r \in Table_delete(tab, slot_id) :
          /\ tab' = r.table
          /\ ret' = RetErr("table_delete", slot_id, "u", 0, "-", r.ok, r.err)
    /\ TableOnly

TableUpdate(slot_id, v) ==
    /\ \E r \in Table_update(tab, slot_id, v) :
          /\ tab' = r.table
          /\ ret' = RetErr("table_update", slot_id, "u", v, "-", r.ok, r.err)
    /\ TableOnly

NextTable ==
    \/ \E v \in Rows : TableInsert(v)
    \/ \E slot_id \in 1..MaxRows : TableDelete(slot_id)
    \/ \E slot_id \in 1..MaxRows : \E v \in Rows : TableUpdate(slot_id, v)

SpecTable == Init /\ [][NextTable]_vars

\* ------------------------------------------------------- index scans
\* A SELECT on the table whose WHERE is col OP literal: the plan is a Filter
\* over a Scan, under a Project when it comes from the planner.  A plan is
\* [project, node, op, value] with node "Filter" or "IndexScan"; rows have
\* the one column, and the Project is SELECT *.
Ops == {"Eq", "Gt", "Gte", "Lt", "Lte"}

\* ExecutionEngine::evaluate_binary_op over Value::compare (Null is less
\* than every value)
evaluate_binary_op(left, op, right) ==
    CASE op = "Eq" -> left = right
      [] op = "Gt" -> left > right
      [] op = "Gte" -> left >= right
      [] op = "Lt" -> left < right
      [] OTHER -> left <= right

\* HeuristicOptimizer::optimize: a Filter over a Scan whose predicate is
\* column OP literal on a column with a single-column index becomes an
\* IndexScan, also below a Project
optimize(plan) ==
    IF plan.node = "Filter" /\ plan.op \in Ops
    THEN [plan EXCEPT !.node = "IndexScan"]
    ELSE plan

\* Table::scan: the live tuples in slot order
RECURSIVE RowsFrom(_, _)
RowsFrom(T, slot_id) ==
    IF slot_id > Len(T.heap) THEN <<>>
    ELSE (IF T.heap[slot_id] # <<>> THEN <<T.heap[slot_id]>> ELSE <<>>)
         \o RowsFrom(T, slot_id + 1)

Table_scan(T) == RowsFrom(T, 1)

\* the rows of a sequence that satisfy column OP value
RECURSIVE FilterRows(_, _, _)
FilterRows(rows, op, value) ==
    IF rows = <<>> THEN <<>>
    ELSE (IF evaluate_binary_op(Head(rows)[1], op, value)
          THEN <<Head(rows)>> ELSE <<>>)
         \o FilterRows(Tail(rows), op, value)

\* ExecutionEngine::execute_scan_plan: Scan and Filter are executed, an
\* IndexScan is an unsupported plan
execute_scan_plan(T, plan) ==
    IF plan.node = "Filter"
    THEN [ok |-> TRUE, rows |-> FilterRows(Table_scan(T), plan.op, plan.value),
          err |-> ""]
    ELSE [ok |-> FALSE, rows |-> <<>>, err |-> "Unsupported plan in scan"]

\* the loop of execute_index_scan over the entries of range_scan: the live
\* tuples, for Gt and Lt only those whose column compares so
RECURSIVE FetchEntries(_, _, _, _)
FetchEntries(T, entries, op, value) ==
    IF entries = <<>> THEN <<>>
    ELSE LET tuple == Table_get(T, Head(entries)[2])
             matches == IF op \in {"Gt", "Lt"} /\ tuple # <<>>
                        THEN evaluate_binary_op(tuple[1], op, value)
                        ELSE TRUE
         IN (IF tuple # <<>> /\ matches THEN <<tuple>> ELSE <<>>)
            \o FetchEntries(T, Tail(entries), op, value)

\* ExecutionEngine::execute_index_scan: the row vectors it can return.  Eq
\* takes the one slot search gives; the others scan the range [value, ..) or
\* (.., value]
execute_index_scan(T, op, value) ==
    IF op = "Eq"
    THEN {IF slot_id # 0 /\ Table_get(T, slot_id) # <<>>
          THEN <<Table_get(T, slot_id)>> ELSE <<>>
          : slot_id \in search(T.index, value)}
    ELSE {FetchEntries(T, entries, op, value)
          : entries \in range_scan(T.index,
                                   IF op \in {"Gt", "Gte"} THEN <<value>> ELSE <<>>,
                                   IF op \in {"Lt", "Lte"} THEN <<value>> ELSE <<>>)}

\* ExecutionEngine::execute after the optimizer: a Project goes to
\* execute_select, which runs its input with execute_scan_plan; an IndexScan
\* goes to execute_index_scan.  The results [ok, rows, err] it can give.
execute(T, plan) ==
    IF plan.project \/ plan.node = "Filter"
    THEN {execute_scan_plan(T, plan)}
    ELSE {[ok |-> TRUE, rows |-> rows, err |-> ""]
          : rows \in execute_index_scan(T, plan.op, plan.value)}

\* -------------------------------------------------------------- the catalog
\* catalog.rs: one Catalog shared by the workers (server/mod.rs hands the same
\* Arc<Catalog> to every connection).  tables and indexes are each behind an
\* RwLock; a step is what a worker does while it holds a lock without
\* acquiring another, so the interleavings are those the locks allow.
\* indexes is the set of IndexDefs [name, table_name].
IndexNames == {"i", "j"}

\* some worker holds tables.write (it is inside drop_table)
TablesWriteHeld == \E w \in Threads : catalog.pc[w].at = "dropping"

CatalogOnly ==
    UNCHANGED <<log_file, walFile, disk, buffer, next_lsn, transactions,
                next_trans_id, locks, current_trans_id, tables, phase, crashes,
                scan1, threads, bpm, pg, tree, tab, pagefile, sync>>

CatRet(op, w, table_name, ok, err) == RetErr(op, w, table_name, 0, "-", ok, err)

\* Catalog::create_table, all of it under tables.write
CreateTable(w, name) ==
    /\ catalog.pc[w].at = "idle" /\ ~TablesWriteHeld
    /\ IF name \in catalog.tables
       THEN /\ catalog' = catalog
            /\ ret' = CatRet("create_table", w, name, FALSE, "TableAlreadyExists")
       ELSE /\ catalog' = [catalog EXCEPT !.tables = @ \cup {name}]
            /\ ret' = CatRet("create_table", w, name, TRUE, "")
    /\ CatalogOnly

\* Catalog::create_index up to the end of get_table: the table is looked up
\* under tables.read and the lock is released when get_table returns
CreateIndexCheck(w, name, table_name) ==
    /\ catalog.pc[w].at = "idle" /\ ~TablesWriteHeld
    /\ IF table_name \in catalog.tables
       THEN /\ catalog' = [catalog EXCEPT !.pc[w] =
                              [at |-> "checked", name |-> name,
                               table_name |-> table_name]]
            /\ ret' = CatRet("get_table", w, table_name, TRUE, "")
       ELSE /\ catalog' = catalog
            /\ ret' = CatRet("create_index", w, table_name, FALSE, "TableNotFound")
    /\ CatalogOnly

\* Catalog::create_index from indexes.write on: the IndexDef is inserted
\* without looking at tables again
CreateIndexInsert(w) ==
    /\ catalog.pc[w].at = "checked"
    /\ LET name == catalog.pc[w].name
           table_name == catalog.pc[w].table_name
       IN IF \E x \in catalog.indexes : x.name = name
          THEN /\ catalog' = [catalog EXCEPT !.pc[w] = Idle]
               /\ ret' = CatRet("create_index", w, table_name, FALSE,
                                "IndexAlreadyExists")
          ELSE /\ catalog' = [catalog EXCEPT
                                 !.indexes = @ \cup {[name |-> name,
                                                      table_name |-> table_name]},
                                 !.pc[w] = Idle]
               /\ ret' = CatRet("create_index", w, table_name, TRUE, "")
    /\ CatalogOnly

\* Catalog::drop_table up to the removal, under tables.write, which it keeps
DropTableRemove(w, name) ==
    /\ catalog.pc[w].at = "idle" /\ ~TablesWriteHeld
    /\ IF name \in catalog.tables
       THEN /\ catalog' = [catalog EXCEPT
                              !.tables = @ \ {name},
                              !.pc[w] = [at |-> "dropping", name |-> "-",
                                         table_name |-> name]]
            /\ ret' = CatRet("tables_remove", w, name, TRUE, "")
       ELSE /\ catalog' = catalog
            /\ ret' = CatRet("drop_table", w, name, FALSE, "TableNotFound")
    /\ CatalogOnly

\* Catalog::drop_table from indexes.write on: the table's indexes go, both
\* locks are released
DropTableRetain(w) ==
    /\ catalog.pc[w].at = "dropping"
    /\ LET name == catalog.pc[w].table_name
       IN /\ catalog' = [catalog EXCEPT
                            !.indexes = {x \in @ : x.table_name # name},
                            !.pc[w] = Idle]
          /\ ret' = CatRet("drop_table", w, name, TRUE, "")
    /\ CatalogOnly

NextCatalog ==
    \/ \E w \in Threads : \E name \in Tables : CreateTable(w, name)
    \/ \E w \in Threads : \E name \in IndexNames : \E table_name \in Tables :
          CreateIndexCheck(w, name, table_name)
    \/ \E w \in Threads : CreateIndexInsert(w)
    \/ \E w \in Threads : \E name \in Tables : DropTableRemove(w, name)
    \/ \E w \in Threads : DropTableRetain(w)

SpecCatalog == Init /\ [][NextCatalog]_vars

\* ------------------------------------------------------ lock-table claims
\* transaction T holds a lock of some mode in entry e
Holds(e, T) == e.ex = T \/ T \in Range(e.sh)

\* every holder of entry e
Holders(e) == (IF e.ex = 0 THEN {} ELSE {e.ex}) \cup Range(e.sh)

\* the step is a call of TransactionManager::acquire_lock
IsAcquire == ret'.op = "acquire"

\* the step is a commit or rollback of T that returned Ok
Ends(T) == ret'.op \in {"tm_commit", "tm_rollback"} /\ ret'.id = T /\ ret'.ok

\* the decision table for a Shared request by T on entry e, giving e2
SharedDecision(e, T, ok, e2) ==
    /\ ok = (e.ex = 0 \/ e.ex = T)
    /\ IF ok /\ e.ex = 0 /\ T \notin Range(e.sh)
       THEN e2 = [e EXCEPT !.sh = Append(@, T)]
       ELSE e2 = e

\* the decision table for an Exclusive request by T on entry e, giving e2
ExclusiveDecision(e, T, ok, e2) ==
    /\ ok = (e = NoLock \/ e.ex = T \/ (e.ex = 0 /\ e.sh = <<T>>))
    /\ IF ok THEN e2 = [ex |-> T, sh |-> IF e.ex = T THEN e.sh ELSE <<>>]
       ELSE e2 = e

\* C7: every call of LockManager::acquire follows the decision table: Shared
\* is granted iff no exclusive holder exists or it is the requester (who
\* joins the shared holders if absent and nobody holds exclusive); Exclusive
\* is granted iff the table is unlocked, the requester is the exclusive
\* holder, or the requester is the only shared holder (upgrade); every other
\* request is denied and changes nothing.
C7_DecisionTable ==
    [][IsAcquire =>
         /\ IF ret'.mode = "Shared"
            THEN SharedDecision(locks[ret'.h][ret'.table], ret'.id, ret'.ok,
                                locks'[ret'.h][ret'.table])
            ELSE ExclusiveDecision(locks[ret'.h][ret'.table], ret'.id, ret'.ok,
                                   locks'[ret'.h][ret'.table])
         /\ \A t \in Tables \ {ret'.table} : locks'[ret'.h][t] = locks[ret'.h][t]]_vars

\* an Exclusive request was denied to a transaction that shares the table
\* with another transaction
C7_Witness ==
    /\ ret.op = "acquire" /\ ret.mode = "Exclusive" /\ ~ret.ok
    /\ locks[ret.h][ret.table].ex = 0
    /\ ret.id \in Range(locks[ret.h][ret.table].sh)
    /\ Len(locks[ret.h][ret.table].sh) = 2

\* C8: a lock of T stays held across every step that is not T's successful
\* commit or rollback (a shared lock may become T's exclusive lock), every
\* conflicting request of another transaction is denied meanwhile, T holds
\* no lock once its commit or rollback has returned, and a request that
\* conflicts with nobody else's lock is granted.
C8_HeldUntilEnd ==
    [][\A T \in 1..MaxTMTrans, t \in Tables :
         /\ (locks[1][t].ex = T /\ ~Ends(T)) => locks'[1][t].ex = T
         /\ (T \in Range(locks[1][t].sh) /\ ~Ends(T)) => Holds(locks'[1][t], T)
         /\ (IsAcquire /\ ret'.table = t /\ ret'.id # T
               /\ (locks[1][t].ex = T
                     \/ (T \in Range(locks[1][t].sh) /\ ret'.mode = "Exclusive")))
            => ~ret'.ok
         /\ Ends(T) => ~Holds(locks'[1][t], T)
         /\ (IsAcquire /\ ret'.table = t /\ ret'.id = T
               /\ Holders(locks[1][t]) \subseteq {T})
            => ret'.ok]_vars

\* after transaction 1 ended, transaction 2 was granted Exclusive on a table
\* that is now locked by nobody else
C8_Witness ==
    /\ ret.op = "acquire" /\ ret.mode = "Exclusive" /\ ret.ok /\ ret.id = 2
    /\ Len(transactions[1]) >= 2
    /\ transactions[1][1] \in {"Committed", "Aborted"}
    /\ transactions[1][2] = "Active"
    /\ locks[1][ret.table] = [ex |-> 2, sh |-> <<>>]

\* ---------------------------------------------------- durability of commit
\* record r is at some position of the log file
InLogFile(r) == \E i \in 1..Len(walFile) : walFile[i] = r

\* C1: when commit returns Ok on an engine built by ExecutionEngine::new, the
\* Commit record of the transaction (the last record its manager appended) is
\* in the log file and the in-memory log buffer is empty.
C1_CommitFlushed ==
    (ret.op = "commit" /\ ret.ok) =>
        /\ buffer[ret.h] = <<>>
        /\ InLogFile(LogRecord(next_lsn[ret.h] - 1, ret.id, "Commit", NoTable, NoSlot, 0, 0))

\* --------------------------------------------------- locks across handles
\* C9: two engine handles of one process never both hold Exclusive on the
\* same table, and a statement of a transaction on one handle is denied
\* while a transaction of another handle holds Exclusive on its table.
C9_OneExclusiveHolder ==
    /\ \A t \in Tables : ~(locks[1][t].ex # 0 /\ locks[2][t].ex # 0)
    /\ (ret.op \in {"insert", "update", "delete", "scan"} /\ ret.id # 0 /\ ret.ok)
         => \A h \in Handles \ {ret.h} : locks[h][ret.table].ex = 0

\* -------------------------------------------------- mutations and the lock
\* the step is an Insert, Update or Delete statement inside a transaction
IsMutation == ret'.op \in {"insert", "update", "delete"} /\ ret'.id # 0

WithRecord(types) ==
    {walFile[i].trans_id : i \in {j \in 1..Len(walFile) : walFile[j].record_type \in types}}

CommittedInLog == WithRecord({"Commit"})

\* Begin record, no Commit, Rollback or Abort record
UnfinishedInLog == WithRecord({"Begin"}) \ WithRecord({"Commit", "Rollback", "Abort"})

\* positions of the data records of the transactions in ids
DataRecords(ids) ==
    {i \in 1..Len(walFile) : IsDataRecord(walFile[i]) /\ walFile[i].trans_id \in ids}

\* the last committed record of every slot
LastCommitted ==
    {i \in DataRecords(CommittedInLog) :
        \A j \in DataRecords(CommittedInLog) :
            walFile[j].slot_id = walFile[i].slot_id => j <= i}

\* recovery has just run in the restarted process
Recovered == phase = "rec1"

\* the record of the last change of every page of the table file is in the log
LogCoversDisk ==
    \A p \in 1..Len(disk["u"]) :
        disk["u"][p].lsn # 0 =>
            \E i \in 1..Len(walFile) :
                /\ walFile[i].lsn = disk["u"][p].lsn
                /\ walFile[i].table_name = "u"
                /\ walFile[i].slot_id[1] = p

\* C2: after a crash and recovery every committed effect is in the heap: the
\* slot of the last committed record of a slot holds the after-image of an
\* Insert or Update and is dead after a Delete.
C2_CommittedEffectsPresent ==
    Recovered =>
        \A i \in LastCommitted :
            heap_get(Store(1), walFile[i].table_name, walFile[i].slot_id).tuple
                = walFile[i].after_image

\* C3: after recovery nothing of a transaction without Commit, Rollback or
\* Abort record is left: when every data record of the log belongs to such a
\* transaction and the log covers every page change on disk, the table the
\* engine started with (empty) is empty again.
C3_UnfinishedUndone ==
    (Recovered /\ LogCoversDisk /\ DataRecords(UnfinishedInLog) # {}
       /\ DataRecords(UnfinishedInLog) = DataRecords(WithRecord({"Begin"})))
    => scan1["u"] = <<>>

\* C4: after recovery nothing of a transaction that ended with Rollback is
\* left: when every data record of the log belongs to a transaction with a
\* Rollback record and without a Commit record and the log covers every page
\* change on disk, the table is empty again.
C4_RolledBackAbsent ==
    (Recovered /\ LogCoversDisk
       /\ DataRecords(WithRecord({"Rollback"}) \ CommittedInLog) # {}
       /\ DataRecords(WithRecord({"Rollback"}) \ CommittedInLog)
            = DataRecords(WithRecord({"Begin"})))
    => scan1["u"] = <<>>

\* occurrences of v in a sequence
RECURSIVE Count(_, _)
Count(seq, v) ==
    IF seq = <<>> THEN 0 ELSE (IF Head(seq) = v THEN 1 ELSE 0) + Count(Tail(seq), v)

\* C5: recover run a second time over the same log leaves every table with
\* the live tuples, counted with multiplicity, that the first run left.
C5_RecoverIdempotent ==
    phase = "rec2" =>
        \A t \in Tables, v \in Vals :
            Count(LiveTuples(Store(1), t), v) = Count(scan1[t], v)

\* C6: a page of the table file never carries the LSN of a change whose WAL
\* record is not in the log file.
C6_LogBeforePage == crashes = 0 => LogCoversDisk

\* ------------------------------------------------------- locks of readers
\* C11: whenever a statement of an open transaction has read the rows of a
\* table through a Scan node, as the plan root or below a Project, the
\* transaction holds Shared or Exclusive on that table.
C11_ReadUnderLock ==
    (ret.op \in {"scan", "select"} /\ ret.id # 0 /\ ret.ok)
        => Holds(locks[ret.h][ret.table], ret.id)

\* ------------------------------------------------- transaction life cycle
\* the step is a commit or rollback call on the transaction manager
IsEnd == ret'.op \in {"tm_commit", "tm_rollback"}

\* the state a successful call of the given kind leaves
EndState(op) == IF op = "tm_commit" THEN "Committed" ELSE "Aborted"

\* C12: transaction states only move Active -> Committed by commit and
\* Active -> Aborted by rollback; a commit or rollback of an unknown id fails
\* with TransactionNotFound, one of a transaction that is not Active fails,
\* and both leave the WAL buffer, the states and the locks as they were.
C12_StateMachine ==
    [][/\ \A id \in 1..Len(transactions[1]) :
            /\ Len(transactions'[1]) >= id
            /\ transactions'[1][id] # transactions[1][id]
               => /\ transactions[1][id] = "Active"
                  /\ IsEnd /\ ret'.id = id /\ ret'.ok
                  /\ transactions'[1][id] = EndState(ret'.op)
       /\ IsEnd =>
            IF ret'.id \notin 1..Len(transactions[1])
            THEN /\ ~ret'.ok /\ ret'.err = "TransactionNotFound"
                 /\ UNCHANGED <<buffer, next_lsn, transactions, locks, walFile>>
            ELSE IF transactions[1][ret'.id] # "Active"
            THEN /\ ~ret'.ok /\ ret'.err = "Transaction not active"
                 /\ UNCHANGED <<buffer, next_lsn, transactions, locks, walFile>>
            ELSE /\ ret'.ok
                 /\ transactions'[1][ret'.id] = EndState(ret'.op)
                 /\ next_lsn'[1] = next_lsn[1] + 1]_vars

\* a commit of a rolled-back transaction failed while another transaction
\* holds a lock
C12_Witness ==
    /\ ret.op = "tm_commit" /\ ~ret.ok /\ ret.err = "Transaction not active"
    /\ transactions[1][ret.id] = "Aborted"
    /\ \E t \in Tables : Holders(locks[1][t]) # {}

\* ------------------------------------------- one transaction per handle
\* the transactions of handle h's manager that are Active
ActiveOf(trs) == {i \in 1..Len(trs) : trs[i] = "Active"}

\* C13: an engine handle has at most one open transaction.  Begin succeeds
\* iff none is open, gets an id larger than every earlier one, and a failed
\* Begin changes nothing; Commit and Rollback succeed iff one is open and
\* leave the handle without an open transaction.
C13_OneOpenTransaction ==
    [][\A h \in Handles :
         /\ ActiveOf(transactions'[h]) =
               (IF current_trans_id'[h] = 0 THEN {} ELSE {current_trans_id'[h]})
         /\ (ret'.op = "begin" /\ ret'.h = h) =>
               /\ ret'.ok = (current_trans_id[h] = 0)
               /\ IF ret'.ok
                  THEN /\ current_trans_id'[h] = ret'.id
                       /\ ret'.id > Len(transactions[h])
                  ELSE UNCHANGED <<current_trans_id, transactions, locks, buffer,
                                   next_lsn, next_trans_id>>
         /\ (ret'.op \in {"commit", "rollback"} /\ ret'.h = h) =>
               /\ ret'.ok = (current_trans_id[h] # 0)
               /\ current_trans_id'[h] = 0]_vars

\* the second transaction of a handle was begun after the first was committed
C13_Witness ==
    /\ ret.op = "begin" /\ ret.ok /\ ret.id = 2
    /\ transactions[ret.h] = <<"Committed", "Active">>
    /\ current_trans_id[ret.h] = 2

\* ----------------------------------------------- concurrent append, begin
\* the records manager 1 has appended, in file order and then buffer order
\* (with a log file the buffer holds what was appended since the last flush,
\* without one it holds everything)
Appended == walFile \o buffer[1]

\* the LSNs of a sequence of records increase strictly
Increasing(records) ==
    \A i, j \in 1..Len(records) : i < j => records[i].lsn < records[j].lsn

C15_BeginIds ==
    /\ threads.returned = [i \in 1..Len(threads.returned) |-> i]
    /\ \A id \in Range(threads.returned) :
          /\ id \in 1..Len(transactions[1]) /\ transactions[1][id] = "Active"
          /\ \E i \in 1..Len(Appended) :
                /\ Appended[i].trans_id = id /\ Appended[i].record_type = "Begin"
                /\ \A j \in 1..Len(Appended) : Appended[j].trans_id = id => i <= j

\* both threads were inside begin at once and two ids have come back
C15_Witness ==
    /\ Len(threads.returned) = 2
    /\ \E th \in Threads : threads.pc[th] = "append_push"
    /\ \E i \in 1..Len(Appended) :
          Appended[i].record_type = "Insert" /\ Appended[i].trans_id = 1

\* ---------------------------------------------------- buffer-pool claims
\* C16: a frame with pin count > 0 is never reassigned to another page,
\* whatever calls of fetch_page, new_page, unpin_page, flush_page and
\* flush_all came before (unpin_page of a page with pin count 0 included).
C16_PinnedNeverReassigned ==
    [][\A i \in 1..PoolSize :
          bpm'.frame_ids[i] # bpm.frame_ids[i] => bpm.frames[i].pin_count = 0]_vars

\* a call that needs a victim frame: new_page, or fetch_page of a page that
\* is not resident
NeedsVictim ==
    \/ ret'.op = "new_page"
    \/ ret'.op = "fetch_page" /\ ret'.id \notin DOMAIN bpm.page_table

\* C17: fetch_page on a miss and new_page fail with "Buffer pool overflow"
\* if and only if the free list is empty and no frame has pin count 0; in
\* every other state a victim frame is obtained.
C17_OverflowIffNoVictim ==
    [][NeedsVictim =>
          ((ret'.err = "Buffer pool overflow")
             <=> (/\ bpm.free_list = <<>>
                  /\ \A i \in 1..PoolSize : bpm.frames[i].pin_count > 0))]_vars

\* frame i holds page g
FrameHolds(i, g) == bpm.frame_ids[i] = g

\* C18: in every state of the pool, also after a fetch_page or new_page that
\* returned an error, page_table maps G to frame i iff frame i holds G, no
\* two frames hold the same page, and no frame is at once on the free list
\* and resident.
C18_TablesAgree ==
    /\ \A g \in PoolPages : \A i \in 1..PoolSize :
          (g \in DOMAIN bpm.page_table /\ bpm.page_table[g] = i) <=> FrameHolds(i, g)
    /\ \A i, j \in 1..PoolSize :
          (i # j /\ bpm.frame_ids[i] # 0) => bpm.frame_ids[i] # bpm.frame_ids[j]
    /\ \A n \in 1..Len(bpm.free_list) : bpm.frame_ids[bpm.free_list[n]] = 0

\* C19: no page write is lost through eviction.  A resident page has the
\* content last written through the pool and is dirty while that content
\* differs from the file; a page that is not resident (its frame was reused
\* or never given) has that content in the file, so fetch_page returns it.
C19_NoLostWrite ==
    \A g \in 1..Len(bpm.dk) :
        IF g \in DOMAIN bpm.page_table
        THEN LET frame == bpm.frames[bpm.page_table[g]]
             IN /\ frame.page = bpm.last[g]
                /\ frame.page # bpm.dk[g] => frame.dirty
        ELSE bpm.dk[g] = bpm.last[g]

\* a call took a victim, every frame now holds another page, and a page
\* that was mutated in the pool is no longer resident
C19_Witness ==
    /\ ret.op \in {"fetch_page", "new_page"} /\ ret.ok
    /\ \E g \in 1..Len(bpm.dk) :
          /\ g \notin DOMAIN bpm.page_table
          /\ bpm.last[g].slots # <<>>
          /\ \A i \in 1..PoolSize : bpm.frame_ids[i] \notin {0, g}
          /\ bpm.dk[g] = bpm.last[g]

\* the calls of the heap file
HeapOps == {"heap_insert", "heap_delete", "heap_update", "heap_get", "heap_scan"}

\* C20: every heap-file call unpins every page it pinned before it returns,
\* on success and on every failure or not-found path: the pin count of every
\* frame after the call equals its pin count before the call.
C20_PinsBalanced ==
    [][ret'.op \in HeapOps =>
          \A i \in 1..PoolSize :
              bpm'.frames[i].pin_count = bpm.frames[i].pin_count]_vars

\* ------------------------------------------------------ heap-file claims
\* C21: HeapFile::insert never returns a SlotId that an earlier insert on
\* the same heap returned, whatever deletes and updates came in between.
C21_SlotNeverReused ==
    [][(ret'.op = "heap_insert" /\ ret'.ok)
          => <<ret'.id, ret'.h>> \notin bpm.returned]_vars

\* an insert returned a new slot of a page that holds a tombstone
C21_Witness ==
    /\ ret.op = "heap_insert" /\ ret.ok
    /\ \E sn \in 1..(ret.h - 1) : bpm.last[ret.id].slots[sn] = Dead

\* ------------------------------------------------------------ page claims
\* the slots of the page that hold a tuple (size 0 is a tombstone)
LiveSlots == {n \in 1..pg.tuple_count : pg.slots[n].size # 0}

\* C22: after any sequence of insert_tuple, update_tuple and delete_tuple,
\* every live slot's byte range lies inside the page behind the slot
\* directory, no two live ranges overlap, and get_tuple of every live slot
\* returns the payload last written to that slot.
C22_LiveRanges ==
    /\ \A n \in LiveSlots :
          /\ pg.slots[n].offset >= PAGE_HEADER_SIZE + pg.tuple_count * SlotEntry
          /\ pg.slots[n].offset + pg.slots[n].size <= PageBytes
          /\ Page_get_tuple(pg, n - 1) = pg.written[n]
    /\ \A n, m \in LiveSlots :
          n # m => \/ pg.slots[n].offset + pg.slots[n].size <= pg.slots[m].offset
                   \/ pg.slots[m].offset + pg.slots[m].size <= pg.slots[n].offset

\* an update moved a tuple to free space on a page with another live
\* tuple, and no byte of free space is left
C22_Witness ==
    /\ ret.op = "update_tuple" /\ ret.ok
    /\ ret.id + 1 \in LiveSlots
    /\ pg.slots[ret.id + 1].offset = pg.free_space_offset
    /\ Cardinality(LiveSlots) >= 2
    /\ free_space(pg) = 0

\* ----------------------------------------------------------- B+ tree claims
\* the optional bounds of a range scan
Bounds == {<<>>} \cup {<<k>> : k \in 1..MaxKey}
InRange(k, start, end) ==
    /\ start = <<>> \/ start[1] <= k
    /\ end = <<>> \/ k <= end[1]

\* the live entries with a key in [start, end] in ascending key order
RECURSIVE LiveFrom(_, _, _)
LiveFrom(k, start, end) ==
    IF k > MaxKey THEN <<>>
    ELSE (IF tree.live[k] # 0 /\ InRange(k, start, end)
          THEN << <<k, tree.live[k]>> >> ELSE <<>>)
         \o LiveFrom(k + 1, start, end)

\* C23: after any inserts and deletes with pairwise distinct live keys,
\* search(k) returns the slot k was last inserted with when k was inserted
\* and not deleted since, and None otherwise
C23_SearchFindsLive == \A k \in 1..MaxKey : search(tree, k) = {tree.live[k]}

\* C24: range_scan(lo, hi) returns exactly the entries with lo <= k <= hi
\* (each bound optional) in ascending key order, the bounds included
C24_RangeInclusive ==
    \A start \in Bounds, end \in Bounds :
        range_scan(tree, start, end) = {LiveFrom(1, start, end)}

\* C25: scan_all emits the keys in ascending order and the entries inserted
\* and not deleted, each once
C25_ScanAllIsLive == scan_all(tree) = {LiveFrom(1, <<>>, <<>>)}

\* every key vector of the tree is sorted (what binary_search relies on)
RECURSIVE NodeSorted(_)
NodeSorted(node) ==
    /\ \A i \in 1..(Len(node.keys) - 1) : node.keys[i] <= node.keys[i + 1]
    /\ \A i \in 1..Len(node.children) : NodeSorted(node.children[i])
TreeSorted == tree.root = <<>> \/ NodeSorted(tree.root[1])

\* -------------------------------------------------------------- table claims
\* the slots of live rows, and the index entries the table should hold in
\* key order: <<key, slot>> of every live row
LiveRows == {s \in 1..Len(tab.heap) : tab.heap[s] # <<>>}
RowEntries == {<<tab.heap[s][1], s>> : s \in LiveRows}
SeqRange(q) == {q[i] : i \in 1..Len(q)}

\* C26: after any Table inserts, updates and deletes, rows sharing a key
\* included, the index holds exactly one entry (key(t), s) for each live tuple
\* t at slot s and none for a deleted tuple or an old key, and search(key)
\* finds a slot iff a live row has that key
C26_IndexMatchesHeap ==
    /\ \A q \in scan_all(tab.index) :
          /\ SeqRange(q) = RowEntries
          /\ Len(q) = Cardinality(LiveRows)
    /\ \A key \in Rows :
          (search(tab.index, key) # {0}) <=> (\E s \in LiveRows : tab.heap[s][1] = key)

\* C27: no live tuple has Null in the NOT NULL column; an insert or update
\* that would store Null there fails and leaves the heap and the index as
\* they were
C27_NullRejected ==
    [][ (ret'.op \in {"table_insert", "table_update"} /\ ret'.id = Null)
        => (~ret'.ok /\ tab' = tab) ]_vars

\* ------------------------------------------------------------ catalog claims
\* C28: under any interleaving of create_index and drop_table calls of
\* different workers, once no drop_table is under way every IndexDef refers
\* to a table that is in the catalog: drop_table removes the indexes of the
\* table and none for it appears afterwards
C28_IndexesHaveTables ==
    ~TablesWriteHeld =>
        \A x \in catalog.indexes : x.table_name \in catalog.tables

\* ----------------------------------------------- claims on several runs
\* C29: for every log the engine can produce, a log spanning several process
\* runs included, the analysis pass yields disjoint sets: no transaction id
\* is both committed (its records redone) and active (its records undone)
C29_AnalysisDisjoint ==
    LET a == Analysis(walFile, {}, {})
    IN a.committed \cap a.active = {}

\* the page-LSN of page p of table u as the engine would read it: the frame's
\* when the page is in the pool, else the file's
PageLsn(tb, dk, p) ==
    IF p \in DOMAIN tb["u"].frames THEN tb["u"].frames[p].lsn ELSE dk["u"][p].lsn

\* C30: the page-LSN of a heap page never decreases, in normal execution, in
\* recovery and in execution after a restart (a step in which the process
\* dies and its pool is lost is not one of these)
C30_PageLsnNeverDecreases ==
    [][ phase' # "down" =>
          \A p \in 1..Len(disk["u"]) :
              PageLsn(tables'[1], disk', p) >= PageLsn(tables[1], disk, p) ]_vars

\* ------------------------------------------------ claims on logged mutations
\* the storage of handle 1 after the step, the rows a statement without a
\* WHERE clause works on, and the records the step appended
StoreAfter == [tb |-> tables'[1], dk |-> disk']
RowsBefore == heap_scan(ensure_table_loaded(Store(1), "u"), "u").rows
NewRecords == SubSeq(buffer'[1], Len(buffer[1]) + 1, Len(buffer'[1]))
RecordTypeOf == [insert |-> "Insert", update |-> "Update", delete |-> "Delete"]

\* C31: every row mutation of an Insert, Update or Delete inside a
\* transaction appends exactly one record of the matching type with the
\* table name and the row's SlotId, the after-image for Insert, the
\* before-image for Delete, both for Update; outside a transaction nothing
\* is appended
C31_OneRecordPerMutation ==
    [][ (ret'.op \in {"insert", "update", "delete"} /\ ret'.ok) =>
          IF current_trans_id[1] = 0 THEN buffer'[1] = buffer[1]
          ELSE /\ Len(NewRecords) = IF ret'.op = "insert" THEN 1 ELSE Len(RowsBefore)
               /\ Len(buffer'[1]) = Len(buffer[1]) + Len(NewRecords)
               /\ \A i \in 1..Len(NewRecords) :
                     LET r == NewRecords[i]
                         now == heap_get(StoreAfter, "u", r.slot_id).tuple
                     IN /\ r.trans_id = current_trans_id[1]
                        /\ r.table_name = "u"
                        /\ r.record_type = RecordTypeOf[ret'.op]
                        /\ r.slot_id # NoSlot
                        /\ ret'.op = "insert" =>
                              /\ r.after_image # 0 /\ now = r.after_image
                              /\ \A q \in 1..Len(RowsBefore) :
                                    RowsBefore[q].slot_id # r.slot_id
                        /\ ret'.op = "update" =>
                              /\ r.slot_id = RowsBefore[i].slot_id
                              /\ r.before_image = RowsBefore[i].tuple
                              /\ r.before_image # 0 /\ r.after_image # 0
                              /\ now = r.after_image
                        /\ ret'.op = "delete" =>
                              /\ r.slot_id = RowsBefore[i].slot_id
                              /\ r.before_image = RowsBefore[i].tuple
                              /\ r.before_image # 0
                              /\ now = Dead ]_vars

\* a transaction's DELETE has just removed two rows and logged both
C31_Witness ==
    /\ ret.op = "delete" /\ ret.ok /\ current_trans_id[1] # 0
    /\ Len(buffer[1]) >= 3
    /\ LET n == Len(buffer[1])
       IN /\ buffer[1][n].record_type = "Delete"
          /\ buffer[1][n - 1].record_type = "Delete"
          /\ buffer[1][n].slot_id # buffer[1][n - 1].slot_id
          /\ buffer[1][n].before_image # 0

\* ------------------------------------------------------ frame and file claims
\* C32: every page held in a frame, new, mutated or loaded from the file (a
\* page allocated zero-filled and never flushed included), has
\* free_space_offset >= 24 + 4 * tuple_count and free_space_offset <= the
\* page size, so free_space() does not underflow
C32_FreeSpaceInBounds ==
    pagefile.resident =>
        /\ pg.free_space_offset >= PAGE_HEADER_SIZE + SlotEntry * pg.tuple_count
        /\ pg.free_space_offset <= PageBytes

\* a miss that was given a victim frame; ret'.h is its index
GotVictim == NeedsVictim /\ ret'.err # "Buffer pool overflow"

\* C33: on a miss the victim frame is taken from the free list while it is
\* non-empty; otherwise it is, among the frames with pin count 0, the one
\* whose pin count reached zero earliest.  Required here of every miss that
\* gets a frame: the frame was on the free list, or the free list was empty
\* and the frame had pin count 0 (the order among several such frames is
\* the replacer's).
C33_VictimIsLru ==
    [][GotVictim =>
          IF bpm.free_list # <<>>
          THEN \E n \in 1..Len(bpm.free_list) : bpm.free_list[n] = ret'.h
          ELSE /\ bpm.frames[ret'.h].pin_count = 0
               /\ ret'.h = Head(bpm.replacer)]_vars

\* ------------------------------------------------------- tree shape claims
\* the depths at which the leaves under a node lie
RECURSIVE LeafDepths(_)
LeafDepths(node) ==
    IF node.leaf THEN {0}
    ELSE UNION {{d + 1 : d \in LeafDepths(node.children[i])}
                : i \in 1..Len(node.children)}

\* at most ORDER keys in every node, one more child than keys in every
\* internal node
RECURSIVE NodeShaped(_)
NodeShaped(node) ==
    /\ Len(node.keys) <= ORDER
    /\ node.leaf \/ Len(node.children) = Len(node.keys) + 1
    /\ \A i \in 1..Len(node.children) : NodeShaped(node.children[i])

\* C34: after any sequence of inserts and deletes all leaves are at the same
\* depth, every node holds at most 4 keys, every internal node has exactly
\* one more child than keys, and len() equals the number of entries that
\* scan_all returns.
C34_TreeShape ==
    /\ tree.root # <<>> =>
          /\ Cardinality(LeafDepths(tree.root[1])) = 1
          /\ NodeShaped(tree.root[1])
    /\ \A entries \in scan_all(tree) : Len(entries) = tree.size

\* leaves and an internal node have split (the leaves lie two levels under
\* the root) and deletes have taken entries out since
C34_Witness ==
    /\ tree.root # <<>>
    /\ LeafDepths(tree.root[1]) = {2}
    /\ tree.size >= 1
    /\ tree.size < MaxEntries

\* ------------------------------------------------------ lock-table shape
\* an entry of the lock table is well formed: an exclusive holder excludes
\* shared holders, and no transaction is listed twice as shared holder
EntryShaped(entry) ==
    /\ entry.ex # 0 => entry.sh = <<>>
    /\ \A i, j \in 1..Len(entry.sh) : entry.sh[i] = entry.sh[j] => i = j

\* no two distinct transactions hold conflicting locks on the entry
NoConflict(entry) ==
    \A T1, T2 \in Holders(entry) :
        (T1 # T2) => (entry.ex # T1 /\ entry.ex # T2)

\* C35: in every reachable lock-table state a table with an exclusive holder
\* has an empty shared-holder list and no shared-holder list names a
\* transaction twice, hence no two distinct transactions hold conflicting
\* locks on one table; and a denied acquire leaves all holders unchanged.
C35_LockTableShape ==
    /\ [](\A h \in Handles, t \in Tables :
             EntryShaped(locks[h][t]) /\ NoConflict(locks[h][t]))
    /\ [][(IsAcquire /\ ~ret'.ok) => locks' = locks]_vars

\* a request was denied on a table held exclusively by another transaction
\* while the other table has two shared holders
C35_Witness ==
    /\ ret.op = "acquire" /\ ~ret.ok
    /\ locks[ret.h][ret.table].ex \notin {0, ret.id}
    /\ \E t \in Tables : Len(locks[ret.h][t].sh) = 2

\* ------------------------------------------------------- log order claims
\* C36: the LSNs of the records in the log file are strictly increasing over
\* the whole file, records appended after an engine restart included: a
\* newly started process never assigns an LSN less than or equal to one
\* already in the log it appends to.
C36_LsnsIncrease ==
    \A i \in 1..(Len(walFile) - 1) : walFile[i].lsn < walFile[i + 1].lsn

Rank(m) ==
    CASE m = "next_trans_id" -> 1
      [] m = "transactions" -> 2
      [] m \in {"trans1", "trans2"} -> 3
      [] m = "next_lsn" -> 4
      [] m = "buffer" -> 5
      [] m = "log_file" -> 6
      [] OTHER -> 7

\* thread th is inside a call
Busy(th) == sync.pc[th] # <<>>

\* thread th waits for a lock
Waits(th) == Busy(th) /\ Head(sync.pc[th])[1] \in {"lock", "read"}

\* thread th can go on even if the read-write lock makes readers queue
\* behind a waiting writer
ReadyBehindWriters(th) ==
    /\ Ready(th)
    /\ Head(sync.pc[th])[1] = "read" =>
          \A o \in Threads \ {th} :
              ~(Busy(o) /\ Head(sync.pc[o]) = Lk(Head(sync.pc[th])[2]) /\ ~Ready(o))

\* C38: concurrent calls of begin, commit, rollback, acquire_lock, append
\* and flush never deadlock on the internal locks: whenever a thread is
\* inside a call some thread can go on, every lock is requested only while
\* the locks already held come before it in one order, and every call
\* returns in the end (acquire_lock takes the lock table's lock only, so a
\* request is answered without waiting for a transaction).
C38_NoInternalDeadlock ==
    /\ []((\E th \in Threads : Busy(th)) => \E th \in Threads : ReadyBehindWriters(th))
    /\ [](\A th \in Threads :
             Waits(th) => \A m \in HeldBy(th) : Rank(m) < Rank(Head(sync.pc[th])[2]))
    /\ \A th \in Threads : Busy(th) ~> ~Busy(th)

\* a thread inside begin waits for the write lock of the transaction map
\* while the other, inside commit, holds its read lock and the log file
C38_Witness ==
    \E th \in Threads :
        /\ Busy(th) /\ ~Ready(th)
        /\ Head(sync.pc[th]) = Lk("transactions")
        /\ \E o \in Threads \ {th} : {"transactions", "log_file"} \subseteq HeldBy(o)

\* ------------------------------------------------------- index-scan claims
\* two row vectors hold the same rows with the same multiplicities
SameRows(a, b) == \A v \in Rows : Count(a, <<v>>) = Count(b, <<v>>)

\* C39: for every table state and every predicate col OP literal with OP in
\* {=, >, >=, <, <=} on the indexed column, executing the IndexScan the
\* optimizer produces returns the same multiset of rows as executing the
\* original Filter over Scan, also when several rows share the key and when
\* the rewritten node is the input of a Project.
C39_IndexScanEquivalent ==
    \A project \in BOOLEAN, op \in Ops, value \in Vals :
        LET plan == [project |-> project, node |-> "Filter", op |-> op,
                     value |-> value]
            original == execute_scan_plan(tab, plan)
        IN \A r \in execute(tab, optimize(plan)) :
              r.ok /\ SameRows(r.rows, original.rows)

\* ------------------------------------------------------ deleted-slot claims
\* slot s of the page has been handed out and get_tuple(s) is None: the slot
\* was deleted (no tuple of size 0 is written)
DeadSlot(P, s) == s < P.tuple_count /\ Page_get_tuple(P, s) = <<>>

\* C40: once a slot has been deleted it stays dead: no later insert, update
\* or delete makes get(s) return a tuple again, and an update addressed to
\* a deleted slot fails without changing the page.
C40_DeadStaysDead ==
    [][\A s \in 0..(pg.tuple_count - 1) :
          DeadSlot(pg, s) =>
              /\ Page_get_tuple(pg', s) = <<>>
              /\ (ret'.op = "update_tuple" /\ ret'.id = s) => (~ret'.ok /\ pg' = pg)]_vars

====
